---- MODULE Spec2Model ----
(***************************************************************************)
(* Model of the agent orchestrator of agentic-dentist-api                  *)
(* (src/api/agents/orchestrator.py and the four agents it drives).         *)
(*                                                                         *)
(* One interaction is one run of run_interaction: the compiled graph       *)
(* classify -> route_to_agent -> {concierge, diagnostician, liaison,       *)
(* auditor, finalize} -> route_to_agent ... -> finalize -> END.            *)
(* The language model, the audit table and the patient lookup are external *)
(* collaborators: their answers are nondeterministic choices.              *)
(* The configured llm_provider is assumed to be a supported one.           *)
(***************************************************************************)
EXTENDS Integers, Sequences, FiniteSets, TLC

VARIABLES
    trigger_type,       \* OrchestratorState["trigger_type"]
    payload,            \* OrchestratorState["payload"]
    patient_ref,        \* OrchestratorState["patient_ref"]
    intent,             \* OrchestratorState["intent"]
    agent_outputs,      \* OrchestratorState["agent_outputs"], a dict in insertion order
    current_agent,      \* OrchestratorState["current_agent"]
    escalated,          \* OrchestratorState["escalated"]
    escalation_reason,  \* OrchestratorState["escalation_reason"]
    completed,          \* OrchestratorState["completed"]
    steps,              \* OrchestratorState["steps"]
    pc,                 \* the node of the graph that runs next
    fault,              \* where an exception left run_interaction, or "none"
    supersteps,         \* nodes executed so far by the graph
    audit_log,          \* rows of the audit_log table, in insertion order
    appointments,       \* rows of the appointments table
    result,             \* what run_interaction returned
    trace,              \* history: the nodes run and the Router's decisions
    booking             \* the scheduling calls in progress, one entry per caller

vars == <<trigger_type, payload, patient_ref, intent, agent_outputs, current_agent,
          escalated, escalation_reason, completed, steps, pc, fault, supersteps,
          audit_log, appointments, result, trace, booking>>

state_fields == <<trigger_type, payload, patient_ref, intent, agent_outputs,
                  current_agent, escalated, escalation_reason, completed, steps>>

-----------------------------------------------------------------------------
(* Values *)

Absent == "ABSENT"      \* a key that is missing from a dict
None   == "None"        \* Python's None / JSON null

NoBooking == <<>>       \* no scheduling call in progress

AgentNames == {"concierge", "diagnostician", "liaison", "auditor"}

GraphNodes == {"classify", "finalize"} \cup AgentNames

TriggerTypes == {"inbound_call", "inbound_sms", "web_chat",
                 "manual_trigger", "scheduled_job", "system_event"}

\* a Router that starts with the Concierge for calls only
LiveTriggersCallsOnly == {"inbound_call"}

\* a Router that starts with the Concierge for scheduled jobs too
LiveTriggersWithJobs == {"inbound_call", "inbound_sms", "web_chat", "scheduled_job"}

\* the trigger types route_to_agent starts with the Concierge for
LiveTriggers == {"inbound_call", "inbound_sms", "web_chat"}

ClinicalIntents == {"clinical_question", "treatment_plan", "chart_review"}

BillingIntents == {"billing_inquiry", "insurance_question"}

\* Bound on the nodes one run of the graph may execute (the graph engine's
\* recursion limit).
MaxSupersteps == 12

\* AgentContext.max_steps, the only step bound the repository declares.
max_steps == 10

\* a step counter that counts a run twice
IncStepsTwice(s) == s + 2

\* state["steps"] += 1
IncSteps(s) == s + 1

\* a graph whose finalize node is followed by the Router again
AfterFinalizeRoutes == "route"

\* graph.add_edge("finalize", END): where the graph goes after finalize_node
AfterFinalize == "END"

-----------------------------------------------------------------------------
(* agent_outputs: a Python dict, kept as a sequence of [name, result] in   *)
(* insertion order.                                                        *)

Keys(outputs) == [i \in 1..Len(outputs) |-> outputs[i].name]

Has(outputs, k) == \E i \in 1..Len(outputs) : outputs[i].name = k

Get(outputs, k) == outputs[CHOOSE i \in 1..Len(outputs) : outputs[i].name = k].result

Put(outputs, k, r) ==
    IF Has(outputs, k)
    THEN [i \in 1..Len(outputs) |->
            IF outputs[i].name = k THEN [name |-> k, result |-> r] ELSE outputs[i]]
    ELSE Append(outputs, [name |-> k, result |-> r])

-----------------------------------------------------------------------------
(* payload.text is kept as the set of keywords it contains as substrings.  *)

TextWords(p) == IF p.text.kind = "str" THEN p.text.words ELSE {}

AnyIn(ws, text) == ws \cap text # {}

\* classify_intent, the value it stores in state["intent"]
IntentOf(trigger, p) ==
    IF trigger = "inbound_call"
    THEN (IF p.intent = Absent THEN "appointment_request" ELSE p.intent)
    ELSE IF trigger = "inbound_sms"
    THEN (IF AnyIn({"cancel", "reschedule", "move"}, TextWords(p)) THEN "schedule_change"
          ELSE IF AnyIn({"confirm", "yes"}, TextWords(p)) THEN "appointment_confirm"
          ELSE IF AnyIn({"bill", "pay", "charge", "insurance"}, TextWords(p)) THEN "billing_inquiry"
          ELSE "general_inquiry")
    ELSE IF trigger = "manual_trigger"
    THEN (IF p.intent = Absent THEN "manual" ELSE p.intent)
    ELSE IF trigger = "scheduled_job"
    THEN (IF p.job_type = Absent THEN "recall_campaign" ELSE p.job_type)
    ELSE "unknown"

\* payload.get("text", "").lower() raises when the text is null
ClassifyRaises(trigger, p) == trigger = "inbound_sms" /\ p.text.kind = "null"

-----------------------------------------------------------------------------
(* The Router *)

\* outputs["concierge"].get("refined_intent", intent)
RefinedIntent(outputs, seed) ==
    IF Get(outputs, "concierge").refined_intent = Absent
    THEN seed
    ELSE Get(outputs, "concierge").refined_intent

\* a Router that ignores payload["agent"]
ManualTargetAlwaysConcierge(p) == "concierge"

\* state["payload"].get("agent", "concierge")
ManualTarget(p) == IF p.agent = Absent THEN "concierge" ELSE p.agent

\* route_to_agent without its first test: escalation no longer ends routing
route_to_agent_ignores_escalation(esc, trigger, seed, p, outputs) ==
    IF ~Has(outputs, "concierge") /\ trigger \in LiveTriggers THEN "concierge"
    ELSE IF Has(outputs, "concierge")
            /\ RefinedIntent(outputs, seed) \in ClinicalIntents
            /\ ~Has(outputs, "diagnostician") THEN "diagnostician"
    ELSE IF Has(outputs, "concierge")
            /\ RefinedIntent(outputs, seed) \in BillingIntents
            /\ ~Has(outputs, "auditor") THEN "auditor"
    ELSE IF Has(outputs, "concierge")
            /\ (Has(outputs, "diagnostician") \/ Has(outputs, "auditor"))
            /\ ~Has(outputs, "liaison") THEN "liaison"
    ELSE IF trigger = "manual_trigger" /\ ~Has(outputs, ManualTarget(p)) THEN ManualTarget(p)
    ELSE IF trigger = "scheduled_job" /\ ~Has(outputs, "liaison") THEN "liaison"
    ELSE "finalize"

\* route_to_agent with the Liaison test moved before the billing test
route_to_agent_liaison_first(esc, trigger, seed, p, outputs) ==
    IF esc THEN "finalize"
    ELSE IF ~Has(outputs, "concierge") /\ trigger \in LiveTriggers THEN "concierge"
    ELSE IF Has(outputs, "concierge")
            /\ RefinedIntent(outputs, seed) \in ClinicalIntents
            /\ ~Has(outputs, "diagnostician") THEN "diagnostician"
    ELSE IF Has(outputs, "concierge")
            /\ (Has(outputs, "diagnostician") \/ Has(outputs, "auditor"))
            /\ ~Has(outputs, "liaison") THEN "liaison"
    ELSE IF Has(outputs, "concierge")
            /\ RefinedIntent(outputs, seed) \in BillingIntents
            /\ ~Has(outputs, "auditor") THEN "auditor"
    ELSE IF trigger = "manual_trigger" /\ ~Has(outputs, ManualTarget(p)) THEN ManualTarget(p)
    ELSE IF trigger = "scheduled_job" /\ ~Has(outputs, "liaison") THEN "liaison"
    ELSE "finalize"

\* route_to_agent whose scheduled-job branch forgets to test that the Liaison
\* has already run
route_to_agent_rejobs_liaison(esc, trigger, seed, p, outputs) ==
    IF esc THEN "finalize"
    ELSE IF ~Has(outputs, "concierge") /\ trigger \in LiveTriggers THEN "concierge"
    ELSE IF Has(outputs, "concierge")
            /\ RefinedIntent(outputs, seed) \in ClinicalIntents
            /\ ~Has(outputs, "diagnostician") THEN "diagnostician"
    ELSE IF Has(outputs, "concierge")
            /\ RefinedIntent(outputs, seed) \in BillingIntents
            /\ ~Has(outputs, "auditor") THEN "auditor"
    ELSE IF Has(outputs, "concierge")
            /\ (Has(outputs, "diagnostician") \/ Has(outputs, "auditor"))
            /\ ~Has(outputs, "liaison") THEN "liaison"
    ELSE IF trigger = "manual_trigger" /\ ~Has(outputs, ManualTarget(p)) THEN ManualTarget(p)
    ELSE IF trigger = "scheduled_job" THEN "liaison"
    ELSE "finalize"

\* route_to_agent that sends to the Liaison only after the Diagnostician
route_to_agent_liaison_after_diag_only(esc, trigger, seed, p, outputs) ==
    IF esc THEN "finalize"
    ELSE IF ~Has(outputs, "concierge") /\ trigger \in LiveTriggers THEN "concierge"
    ELSE IF Has(outputs, "concierge")
            /\ RefinedIntent(outputs, seed) \in ClinicalIntents
            /\ ~Has(outputs, "diagnostician") THEN "diagnostician"
    ELSE IF Has(outputs, "concierge")
            /\ RefinedIntent(outputs, seed) \in BillingIntents
            /\ ~Has(outputs, "auditor") THEN "auditor"
    ELSE IF Has(outputs, "concierge")
            /\ Has(outputs, "diagnostician")
            /\ ~Has(outputs, "liaison") THEN "liaison"
    ELSE IF trigger = "manual_trigger" /\ ~Has(outputs, ManualTarget(p)) THEN ManualTarget(p)
    ELSE IF trigger = "scheduled_job" /\ ~Has(outputs, "liaison") THEN "liaison"
    ELSE "finalize"

\* route_to_agent whose Liaison branch does not ask for a specialist's result
route_to_agent_liaison_after_intake(esc, trigger, seed, p, outputs) ==
    IF esc THEN "finalize"
    ELSE IF ~Has(outputs, "concierge") /\ trigger \in LiveTriggers THEN "concierge"
    ELSE IF Has(outputs, "concierge")
            /\ RefinedIntent(outputs, seed) \in ClinicalIntents
            /\ ~Has(outputs, "diagnostician") THEN "diagnostician"
    ELSE IF Has(outputs, "concierge")
            /\ RefinedIntent(outputs, seed) \in BillingIntents
            /\ ~Has(outputs, "auditor") THEN "auditor"
    ELSE IF Has(outputs, "concierge")
            /\ ~Has(outputs, "liaison") THEN "liaison"
    ELSE IF trigger = "manual_trigger" /\ ~Has(outputs, ManualTarget(p)) THEN ManualTarget(p)
    ELSE IF trigger = "scheduled_job" /\ ~Has(outputs, "liaison") THEN "liaison"
    ELSE "finalize"

\* route_to_agent
route_to_agent(esc, trigger, seed, p, outputs) ==
    IF esc THEN "finalize"
    ELSE IF ~Has(outputs, "concierge") /\ trigger \in LiveTriggers THEN "concierge"
    ELSE IF Has(outputs, "concierge")
            /\ RefinedIntent(outputs, seed) \in ClinicalIntents
            /\ ~Has(outputs, "diagnostician") THEN "diagnostician"
    ELSE IF Has(outputs, "concierge")
            /\ RefinedIntent(outputs, seed) \in BillingIntents
            /\ ~Has(outputs, "auditor") THEN "auditor"
    ELSE IF Has(outputs, "concierge")
            /\ (Has(outputs, "diagnostician") \/ Has(outputs, "auditor"))
            /\ ~Has(outputs, "liaison") THEN "liaison"
    ELSE IF trigger = "manual_trigger" /\ ~Has(outputs, ManualTarget(p)) THEN ManualTarget(p)
    ELSE IF trigger = "scheduled_job" /\ ~Has(outputs, "liaison") THEN "liaison"
    ELSE "finalize"

-----------------------------------------------------------------------------
(* The appointments table, as far as the Concierge's cancellation uses it *)

workspace_id == "w1"    \* the workspace of the interaction

Now == 0                \* datetime.now(CLINIC_TZ), on the scale of start_time

ApptIds == {1, 2, 3}

InitialAppointments ==
    [a \in ApptIds |->
        IF a = 1 THEN [workspace_id |-> "w1", patient_id |-> "p1", start_time |-> 3, status |-> "scheduled"]
        ELSE IF a = 2 THEN [workspace_id |-> "w1", patient_id |-> "p1", start_time |-> 1, status |-> "scheduled"]
        ELSE [workspace_id |-> "w1", patient_id |-> "p2", start_time |-> 2, status |-> "scheduled"]]

\* the rows cancel_appointment(patient_id=...) selects before order/limit(1)
Upcoming(appts, ws, pid) ==
    {a \in DOMAIN appts : /\ appts[a].workspace_id = ws
                          /\ appts[a].patient_id = pid
                          /\ appts[a].start_time >= Now
                          /\ appts[a].status # "cancelled"}

\* .order("start_time").limit(1)
NextUpcoming(appts, ws, pid) ==
    CHOOSE a \in Upcoming(appts, ws, pid) :
        \A b \in Upcoming(appts, ws, pid) : appts[a].start_time <= appts[b].start_time

AuditEvent(actor, act) == [actor_id |-> actor, action |-> act]

Node(n) == [kind |-> "node", name |-> n]

Decision(d) == [kind |-> "route", name |-> d]

-----------------------------------------------------------------------------
(* Inputs of one interaction *)

PayloadIntents == {Absent, "clinical_question"}

PayloadTexts == {[kind |-> "absent", words |-> {}],
                 [kind |-> "null", words |-> {}],
                 [kind |-> "str", words |-> {}],
                 [kind |-> "str", words |-> {"cancel"}],
                 [kind |-> "str", words |-> {"bill"}]}

PayloadJobTypes == {Absent, "reminder_batch"}

PayloadAgents == {Absent, "concierge", "diagnostician", "liaison", "auditor",
                  "finalize", "classify", "bogus"}

PayloadNames == {Absent, "smith"}

Payloads == [intent : PayloadIntents, text : PayloadTexts, job_type : PayloadJobTypes,
             agent : PayloadAgents, patient_name : PayloadNames]

PatientRefs == {None, "p1"}

Init ==
    /\ trigger_type \in TriggerTypes
    /\ payload \in Payloads
    /\ patient_ref \in PatientRefs
    /\ intent = None
    /\ agent_outputs = <<>>
    /\ current_agent = None
    /\ escalated = FALSE
    /\ escalation_reason = None
    /\ completed = FALSE
    /\ steps = 0
    /\ pc = "classify"
    /\ fault = "none"
    /\ supersteps = 0
    /\ audit_log = <<>>
    /\ appointments = InitialAppointments
    /\ result = <<>>
    /\ booking = NoBooking
    /\ trace = <<>>

-----------------------------------------------------------------------------
(* Nodes of the graph *)

\* an exception leaves the graph and run_interaction
Raise(where) ==
    /\ pc' = "fault"
    /\ fault' = where

\* classify_intent
Classify ==
    /\ pc = "classify"
    /\ supersteps' = supersteps + 1
    /\ trace' = Append(trace, Node("classify"))
    /\ IF ClassifyRaises(trigger_type, payload)
       THEN /\ Raise("classify")
            /\ UNCHANGED <<intent, steps>>
       ELSE /\ intent' = IntentOf(trigger_type, payload)
            /\ steps' = IncSteps(steps)
            /\ pc' = "route"
            /\ UNCHANGED fault
    /\ UNCHANGED <<trigger_type, payload, patient_ref, agent_outputs, current_agent,
                   escalated, escalation_reason, completed, audit_log, appointments, result, booking>>

\* a Router step that also records the agent it chose in current_agent
RouteMarksAgent ==
    /\ pc = "route"
    /\ LET d == route_to_agent(escalated, trigger_type, intent, payload, agent_outputs) IN
        /\ trace' = Append(trace, Decision(d))
        /\ current_agent' = d
        /\ IF d \in GraphNodes
           THEN IF supersteps >= MaxSupersteps
                THEN Raise("recursion")
                ELSE pc' = d /\ UNCHANGED fault
           ELSE \/ Raise("router")
                \/ pc' = "END" /\ UNCHANGED fault
    /\ UNCHANGED <<trigger_type, payload, patient_ref, intent, agent_outputs, escalated,
                   escalation_reason, completed, steps, supersteps, audit_log,
                   appointments, result, booking>>

\* the conditional edge after classify and after each agent: route_to_agent
\* decides, the graph engine moves to the node it named
Route ==
    /\ pc = "route"
    /\ LET d == route_to_agent(escalated, trigger_type, intent, payload, agent_outputs) IN
        /\ trace' = Append(trace, Decision(d))
        /\ IF d \in GraphNodes
           THEN IF supersteps >= MaxSupersteps
                THEN Raise("recursion")
                ELSE pc' = d /\ UNCHANGED fault
           ELSE \/ Raise("router")
                \/ pc' = "END" /\ UNCHANGED fault
    /\ UNCHANGED <<state_fields, supersteps, audit_log, appointments, result, booking>>

-----------------------------------------------------------------------------
(* The Concierge agent: run_concierge *)

\* what lookup_patient_by_name answers (or "raise" when the call fails)
LookupOutcomes == {[kind |-> "found", id |-> "p1"],
                   [kind |-> "candidates", id |-> None],
                   [kind |-> "not_found", id |-> None],
                   [kind |-> "raise", id |-> None]}

\* what the language model answers to the Concierge: a JSON object with these
\* keys, text that is not JSON, or a failed call
ConciergeReplies ==
    [kind : {"json"},
     refined_intent : {Absent, "clinical_question", "billing_inquiry", "general_inquiry"},
     escalate : {FALSE},
     escalation_reason : {None}]
    \cup
    [kind : {"json"},
     refined_intent : {Absent, "clinical_question", "billing_inquiry", "general_inquiry"},
     escalate : {TRUE},
     escalation_reason : {Absent, None, "Emergency"}]
    \cup
    [kind : {"not_json", "raise"},
     refined_intent : {Absent}, escalate : {FALSE}, escalation_reason : {None}]

\* patient_ref after "Step 0: Patient name lookup"
ResolvedRef(ref, p, lookup) ==
    IF p.patient_name # Absent /\ ref = None
    THEN (IF lookup.kind = "found" THEN lookup.id ELSE None)
    ELSE ref

LookupRan(ref, p, lookup) ==
    p.patient_name # Absent /\ ref = None /\ lookup.kind # "raise"

\* does this run reach the update of cancel_appointment
CancelHits(ref, words, appts) ==
    /\ ref # None
    /\ "cancel" \in words
    /\ Upcoming(appts, workspace_id, ref) # {}

\* the appointments table after the run
AfterCancel(ref, words, appts) ==
    IF CancelHits(ref, words, appts)
    THEN [appts EXCEPT ![NextUpcoming(appts, workspace_id, ref)].status = "cancelled"]
    ELSE appts

\* the keys of tool_results
ToolsUsed(ref0, ref, p, lookup, words, appts, cancel_logged) ==
    (IF LookupRan(ref0, p, lookup) THEN {"patient_lookup"} ELSE {})
    \cup (IF ref # None /\ AnyIn({"cancel", "reschedule", "move", "change", "appointment"}, words)
          THEN {"patient_appointments"} ELSE {})
    \cup (IF AnyIn({"book", "schedule", "appointment", "available", "opening", "reschedule", "next"}, words)
          THEN {"availability"} ELSE {})
    \cup (IF ref # None /\ "cancel" \in words
             /\ (Upcoming(appts, workspace_id, ref) = {} \/ cancel_logged)
          THEN {"cancellation"} ELSE {})

\* the dict run_concierge returns
ConciergeResult(reply, logged, seed, tools) ==
    IF reply.kind = "json" /\ logged
    THEN [refined_intent |-> reply.refined_intent, escalate |-> reply.escalate,
          escalation_reason |-> reply.escalation_reason, error |-> FALSE, tools |-> tools]
    ELSE IF reply.kind = "not_json"
    THEN [refined_intent |-> (IF seed = None THEN "unknown" ELSE seed), escalate |-> FALSE,
          escalation_reason |-> None, error |-> TRUE, tools |-> tools]
    ELSE [refined_intent |-> "error", escalate |-> FALSE,
          escalation_reason |-> "Concierge error", error |-> TRUE, tools |-> tools]

\* the rows the run appends to audit_log
ConciergeAudit(log, cancelled, cancel_logged, reply, logged) ==
    (log \o (IF cancelled /\ cancel_logged
             THEN <<AuditEvent("concierge", "appointment_cancelled")>> ELSE <<>>))
        \o (IF reply.kind = "json" /\ logged
            THEN <<AuditEvent("concierge", "intent_classified")>> ELSE <<>>)

\* result.get("escalation_reason", "Concierge escalated")
EscalationReasonOf(r) ==
    IF r.escalation_reason = Absent THEN "Concierge escalated" ELSE r.escalation_reason

\* run_concierge_node
ConciergeNode ==
    /\ pc = "concierge"
    /\ \E lookup \in LookupOutcomes, reply \in ConciergeReplies,
          cancel_logged \in BOOLEAN, logged \in BOOLEAN :
        LET words == TextWords(payload)
            ref == ResolvedRef(patient_ref, payload, lookup)
            cancelled == CancelHits(ref, words, appointments)
            tools == ToolsUsed(patient_ref, ref, payload, lookup, words, appointments, cancel_logged)
            res == ConciergeResult(reply, logged, intent, tools)
        IN  /\ appointments' = AfterCancel(ref, words, appointments)
            /\ audit_log' = ConciergeAudit(audit_log, cancelled, cancel_logged, reply, logged)
            /\ agent_outputs' = Put(agent_outputs, "concierge", res)
            /\ current_agent' = "concierge"
            /\ steps' = IncSteps(steps)
            /\ IF res.escalate
               THEN /\ escalated' = TRUE
                    /\ escalation_reason' = EscalationReasonOf(res)
               ELSE UNCHANGED <<escalated, escalation_reason>>
    /\ pc' = "route"
    /\ supersteps' = supersteps + 1
    /\ trace' = Append(trace, Node("concierge"))
    /\ UNCHANGED <<trigger_type, payload, patient_ref, intent, completed, fault, result, booking>>

-----------------------------------------------------------------------------
(* The Diagnostician, Liaison and Auditor agents *)

\* what the language model answers to the Diagnostician: a JSON object whose
\* briefing_card is an object or is missing, or anything that makes the
\* run fail
DiagnosticianReplies == {"card", "no_card", "raise"}

\* the dict run_diagnostician returns
DiagnosticianResult(reply, logged) ==
    IF reply # "raise" /\ logged
    THEN [briefing_card |-> (IF reply = "card" THEN "card" ELSE Absent), error |-> FALSE]
    ELSE [briefing_card |-> None, error |-> TRUE]

\* run_diagnostician_node
DiagnosticianNode ==
    /\ pc = "diagnostician"
    /\ \E reply \in DiagnosticianReplies, logged \in BOOLEAN :
        LET res == DiagnosticianResult(reply, logged) IN
            /\ agent_outputs' = Put(agent_outputs, "diagnostician", res)
            /\ audit_log' = IF ~res.error
                            THEN Append(audit_log, AuditEvent("diagnostician", "briefing_generated"))
                            ELSE audit_log
    /\ current_agent' = "diagnostician"
    /\ steps' = IncSteps(steps)
    /\ pc' = "route"
    /\ supersteps' = supersteps + 1
    /\ trace' = Append(trace, Node("diagnostician"))
    /\ UNCHANGED <<trigger_type, payload, patient_ref, intent, escalated, escalation_reason,
                   completed, fault, appointments, result, booking>>

\* run_liaison reads card = diag.get("briefing_card", {}) and then card.get(...)
\* before its try block: a briefing_card of None raises there
LiaisonRaises(outputs) ==
    /\ Has(outputs, "diagnostician")
    /\ Get(outputs, "diagnostician").briefing_card = None

LiaisonReplies == {"json", "raise"}

\* the dict run_liaison returns
LiaisonResult(reply, logged) ==
    IF reply = "json" /\ logged
    THEN [messages |-> "drafted", error |-> FALSE]
    ELSE [messages |-> "empty", error |-> TRUE]

\* run_liaison_node
LiaisonNode ==
    /\ pc = "liaison"
    /\ supersteps' = supersteps + 1
    /\ trace' = Append(trace, Node("liaison"))
    /\ IF LiaisonRaises(agent_outputs)
       THEN /\ Raise("liaison")
            /\ UNCHANGED <<agent_outputs, audit_log, current_agent, steps>>
       ELSE /\ \E reply \in LiaisonReplies, logged \in BOOLEAN :
                LET res == LiaisonResult(reply, logged) IN
                    /\ agent_outputs' = Put(agent_outputs, "liaison", res)
                    /\ audit_log' = IF ~res.error
                                    THEN Append(audit_log, AuditEvent("liaison", "communications_drafted"))
                                    ELSE audit_log
            /\ current_agent' = "liaison"
            /\ steps' = IncSteps(steps)
            /\ pc' = "route"
            /\ UNCHANGED fault
    /\ UNCHANGED <<trigger_type, payload, patient_ref, intent, escalated, escalation_reason,
                   completed, appointments, result, booking>>

AuditorReplies == {"json", "raise"}

\* the dict run_auditor returns
AuditorResult(reply, logged) ==
    IF reply = "json" /\ logged
    THEN [status |-> "pass", error |-> FALSE]
    ELSE [status |-> "error", error |-> TRUE]

\* run_auditor_node
AuditorNode ==
    /\ pc = "auditor"
    /\ \E reply \in AuditorReplies, logged \in BOOLEAN :
        LET res == AuditorResult(reply, logged) IN
            /\ agent_outputs' = Put(agent_outputs, "auditor", res)
            /\ audit_log' = IF ~res.error
                            THEN Append(audit_log, AuditEvent("auditor", "compliance_audit"))
                            ELSE audit_log
    /\ current_agent' = "auditor"
    /\ steps' = IncSteps(steps)
    /\ pc' = "route"
    /\ supersteps' = supersteps + 1
    /\ trace' = Append(trace, Node("auditor"))
    /\ UNCHANGED <<trigger_type, payload, patient_ref, intent, escalated, escalation_reason,
                   completed, fault, appointments, result, booking>>

-----------------------------------------------------------------------------
(* Finalize and the return of run_interaction *)

\* the row finalize_node writes
CompletionEvent ==
    [actor_id |-> "orchestrator", action |-> "interaction_completed",
     trigger_type |-> trigger_type, intent |-> intent,
     agents_used |-> Keys(agent_outputs), escalated |-> escalated, steps |-> steps]

\* finalize_node; the edge finalize -> END
FinalizeNode ==
    /\ pc = "finalize"
    /\ completed' = TRUE
    /\ supersteps' = supersteps + 1
    /\ trace' = Append(trace, Node("finalize"))
    /\ \E logged \in BOOLEAN :
        IF logged
        THEN /\ audit_log' = Append(audit_log, CompletionEvent)
             /\ pc' = AfterFinalize
             /\ UNCHANGED fault
        ELSE /\ Raise("finalize")
             /\ UNCHANGED audit_log
    /\ UNCHANGED <<trigger_type, payload, patient_ref, intent, agent_outputs, current_agent,
                   escalated, escalation_reason, steps, appointments, result, booking>>

\* run_interaction after orchestrator.ainvoke returned
ReturnResult ==
    /\ pc = "END"
    /\ result' = <<[intent |-> intent, agents_used |-> Keys(agent_outputs),
                    escalated |-> escalated, escalation_reason |-> escalation_reason,
                    steps |-> steps]>>
    /\ pc' = "returned"
    /\ UNCHANGED <<state_fields, fault, supersteps, audit_log, appointments, trace, booking>>

Next ==
    \/ Classify
    \/ Route
    \/ ConciergeNode
    \/ DiagnosticianNode
    \/ LiaisonNode
    \/ AuditorNode
    \/ FinalizeNode
    \/ ReturnResult

Spec == Init /\ [][Next]_vars

-----------------------------------------------------------------------------
(* The Router alone, on every interaction state *)

RouterSeeds == {"appointment_request", "clinical_question", "insurance_question", "manual"}

RouterRefined == {Absent, "general_inquiry", "error"} \cup ClinicalIntents \cup BillingIntents

RouterPayloads == [intent : {Absent}, text : {[kind |-> "absent", words |-> {}]},
                   job_type : {Absent}, agent : PayloadAgents, patient_name : {Absent}]

\* an agent_outputs dict holding results of the agents of ran
OutputsOf(ran, refined) ==
    (((IF "concierge" \in ran
       THEN <<[name |-> "concierge",
               result |-> [refined_intent |-> refined, escalate |-> FALSE,
                           escalation_reason |-> None, error |-> FALSE, tools |-> {}]]>>
       ELSE <<>>)
      \o (IF "diagnostician" \in ran
          THEN <<[name |-> "diagnostician", result |-> DiagnosticianResult("card", TRUE)]>>
          ELSE <<>>))
      \o (IF "auditor" \in ran
          THEN <<[name |-> "auditor", result |-> AuditorResult("json", TRUE)]>>
          ELSE <<>>))
      \o (IF "liaison" \in ran
          THEN <<[name |-> "liaison", result |-> LiaisonResult("json", TRUE)]>>
          ELSE <<>>)

RouterInit ==
    /\ trigger_type \in TriggerTypes
    /\ payload \in RouterPayloads
    /\ patient_ref = None
    /\ intent \in RouterSeeds
    /\ \E ran \in SUBSET AgentNames, refined \in RouterRefined :
        /\ agent_outputs = OutputsOf(ran, refined)
        /\ steps = 1 + Cardinality(ran)
        /\ supersteps = 1 + Cardinality(ran)
    /\ current_agent = None
    /\ escalated \in BOOLEAN
    /\ escalation_reason = (IF escalated THEN "Emergency" ELSE None)
    /\ completed = FALSE
    /\ pc = "route"
    /\ fault = "none"
    /\ audit_log = <<>>
    /\ appointments = InitialAppointments
    /\ result = <<>>
    /\ booking = NoBooking
    /\ trace = <<>>

RouterNext == Route

SpecRouter == RouterInit /\ [][RouterNext]_vars

\* the names that are keys of agent_outputs
Ran == {agent_outputs[i].name : i \in 1..Len(agent_outputs)}

\* the last entry of the history
Last == trace[Len(trace)]

\* the capability invocations of the history
Invocations == {i \in 1..Len(trace) : trace[i].kind = "node" /\ trace[i].name \in AgentNames}

-----------------------------------------------------------------------------
(* Properties of the orchestrator *)

\* C1: steps starts at 0 and never decreases; a step of the interaction
\* changes it only by adding exactly 1, and does so exactly when the
\* classification or a capability (concierge, diagnostician, liaison, auditor)
\* has run to its end; so once the Router has sent the interaction to finalize,
\* steps = 1 + the number of capability invocations.
StepsCountInvocations ==
    /\ [](/\ (trace = <<>> => steps = 0)
          /\ (pc \in {"finalize", "END", "returned"} => steps = 1 + Cardinality(Invocations)))
    /\ [][/\ steps' >= steps
          /\ (steps' # steps =>
                /\ steps' = steps + 1
                /\ pc \in AgentNames \cup {"classify"})
          /\ (pc \in AgentNames \cup {"classify"} /\ pc' # "fault" => steps' = steps + 1)]_vars

\* C1 witness: an interaction that ran three capabilities has returned with steps = 4
StepsCountWitness ==
    /\ pc = "returned"
    /\ Cardinality(Invocations) = 3
    /\ steps = 4

\* C2: once route_to_agent has returned "finalize", the only node that runs
\* afterwards is finalize itself: no capability is invoked, the Router is not
\* consulted again, and the graph goes from finalize to its end (or stops on
\* the failure of finalize's own audit write).
FinalizeAbsorbing ==
    /\ \A i \in 1..Len(trace) :
          trace[i] = Decision("finalize") =>
              /\ \A j \in (i+1)..Len(trace) : j = i + 1 /\ trace[j] = Node("finalize")
              /\ pc \in {"finalize", "END", "returned", "fault"}
              /\ (pc = "fault" => fault \in {"finalize", "recursion"})

\* C2 witness: the Router returned finalize after the Concierge, the
\* Diagnostician and the Liaison ran, and the interaction has ended
FinalizeAbsorbingWitness ==
    /\ pc = "returned"
    /\ Keys(agent_outputs) = <<"concierge", "diagnostician", "liaison">>
    /\ \E i \in 1..Len(trace) : trace[i] = Decision("finalize")

\* C3: escalated never goes from true back to false, and every decision the
\* Router takes in a state with escalated = true is "finalize".
EscalationHalts ==
    [][/\ (escalated => escalated')
       /\ (escalated /\ pc = "route" => trace' = Append(trace, Decision("finalize")))]_vars

\* C3 witness: the Concierge escalated while refining the intent to a clinical
\* one, and the Router answered finalize
EscalationHaltsWitness ==
    /\ escalated
    /\ Has(agent_outputs, "concierge")
    /\ RefinedIntent(agent_outputs, intent) \in ClinicalIntents
    /\ trace # <<>>
    /\ Last = Decision("finalize")

-----------------------------------------------------------------------------
(* The routing policy as the specification words it: six rules in          *)
(* precedence order, the first that matches wins.                          *)

NoMatch == "-"

\* Intake's refined intent (the interaction's intent when Intake's result
\* carries none)
PolicyIntent == IF Get(agent_outputs, "concierge").refined_intent = Absent
                THEN intent
                ELSE Get(agent_outputs, "concierge").refined_intent

PolicyTarget == IF payload.agent = Absent THEN "concierge" ELSE payload.agent

Rule1 == IF escalated THEN "finalize" ELSE NoMatch

Rule2 == IF "concierge" \notin Ran /\ trigger_type \in {"inbound_call", "inbound_sms", "web_chat"}
         THEN "concierge" ELSE NoMatch

Rule3 ==
    IF "concierge" \notin Ran THEN NoMatch
    ELSE IF PolicyIntent \in {"clinical_question", "treatment_plan", "chart_review"}
            /\ "diagnostician" \notin Ran THEN "diagnostician"
    ELSE IF PolicyIntent \in {"billing_inquiry", "insurance_question"}
            /\ "auditor" \notin Ran THEN "auditor"
    ELSE IF Ran \cap {"diagnostician", "auditor"} # {} /\ "liaison" \notin Ran THEN "liaison"
    ELSE NoMatch

Rule4 == IF trigger_type = "manual_trigger" /\ PolicyTarget \notin Ran
         THEN PolicyTarget ELSE NoMatch

Rule5 == IF trigger_type = "scheduled_job" /\ "liaison" \notin Ran THEN "liaison" ELSE NoMatch

Rules == <<Rule1, Rule2, Rule3, Rule4, Rule5, "finalize">>

Policy == Rules[CHOOSE k \in 1..6 : Rules[k] # NoMatch /\ \A j \in 1..(k-1) : Rules[j] = NoMatch]

\* C4: on every interaction state, route_to_agent returns what the six-rule
\* policy returns when its rules are tried in order and the first match wins.
RouterFollowsPolicy ==
    trace # <<>> => Last = Decision(Policy)

\* C4 witness (scenario B): Intake has run with refined_intent = billing_inquiry,
\* nothing else has run, and the Router answered Compliance-Audit
RouterFollowsPolicyWitness ==
    /\ trace # <<>>
    /\ ~escalated
    /\ Ran = {"concierge"}
    /\ Get(agent_outputs, "concierge").refined_intent = "billing_inquiry"
    /\ Last = Decision("auditor")

\* C6: a call of route_to_agent changes no field of the interaction state and
\* writes nothing to the audit log or to the appointments table.
RouterHasNoSideEffects ==
    [][pc = "route" => UNCHANGED <<state_fields, audit_log, appointments>>]_vars

\* C6 witness: the Router has just decided in a state that holds agent results,
\* audit rows and a cancelled appointment
RouterHasNoSideEffectsWitness ==
    /\ trace # <<>>
    /\ Last.kind = "route"
    /\ Len(agent_outputs) >= 2
    /\ audit_log # <<>>
    /\ \E a \in ApptIds : appointments[a].status = "cancelled"

\* C7: every decision of the Router is one of the four capability names or
\* "finalize".
RouterReturnsKnownNode ==
    \A i \in 1..Len(trace) :
        trace[i].kind = "route" => trace[i].name \in AgentNames \cup {"finalize"}

\* C8: steps never exceeds the step bound; an interaction that reaches the
\* bound is finalized with a "bounds exceeded" reason instead.
StepBoundEnforced ==
    steps <= max_steps

\* C9: no capability raises an unhandled fault: a failure inside a capability
\* ends in a failure-flagged result, never in an exception that leaves the graph.
NoCapabilityFault ==
    fault \notin AgentNames

\* C10: no capability is invoked more than once in an interaction, whether its
\* run succeeded, failed or escalated, and the Router never selects a
\* capability whose name is already a key of agent_outputs.
NoCapabilityRunsTwice ==
    /\ [](\A i, j \in Invocations : trace[i].name = trace[j].name => i = j)
    /\ [][pc = "route" => trace'[Len(trace')].name \notin Ran]_vars

\* C10 witness: the Auditor ran once and failed, then the Liaison ran, and the
\* interaction ended
NoCapabilityRunsTwiceWitness ==
    /\ pc = "returned"
    /\ Has(agent_outputs, "auditor")
    /\ Get(agent_outputs, "auditor").error
    /\ Has(agent_outputs, "liaison")
    /\ Cardinality(Invocations) = 3

-----------------------------------------------------------------------------
(* Finalize, escalation and the audit summary *)

\* the rows of audit_log that are interaction summaries
CompletionRows == {i \in 1..Len(audit_log) : audit_log[i].action = "interaction_completed"}

\* has finalize_node run
FinalizeRan == \E i \in 1..Len(trace) : trace[i] = Node("finalize")

\* C11: a failure of the audit write of finalize never becomes an exception
\* that leaves run_interaction: the interaction still completes and returns.
AuditFailureDoesNotBlock ==
    fault # "finalize"

\* C12: escalation_reason is non-null exactly when escalated is true, and a
\* result that signals escalation has set escalated on the transition that
\* stored it.
EscalationReasonRecorded ==
    /\ (escalated <=> escalation_reason # None)
    /\ (Has(agent_outputs, "concierge") /\ Get(agent_outputs, "concierge").escalate
            => escalated)

\* C13: once a capability's result carries a refined intent, the interaction's
\* intent (the one finalize and run_interaction report) is that refined value.
IntentFollowsRefinement ==
    (/\ Has(agent_outputs, "concierge")
     /\ ~Get(agent_outputs, "concierge").error
     /\ Get(agent_outputs, "concierge").refined_intent # Absent)
        => intent = Get(agent_outputs, "concierge").refined_intent

\* C14: completed is true exactly from the finalize transition on, and once
\* the Router has sent the interaction to finalize and finalize has run,
\* exactly one interaction_completed row has been written (never zero, never two).
FinalizeWritesOneSummary ==
    /\ (completed <=> FinalizeRan)
    /\ Cardinality(CompletionRows) <= 1
    /\ (FinalizeRan => Cardinality(CompletionRows) = 1)

IsInvocation(e) == e.kind = "node" /\ e.name \in AgentNames

\* the capability invocations of the interaction, in execution order
InvocationNames ==
    [i \in 1..Len(SelectSeq(trace, IsInvocation)) |-> SelectSeq(trace, IsInvocation)[i].name]

\* what the summary has to contain
RequiredSummaryFields == {"trigger_type", "intent", "agents_used", "escalated", "steps", "duration_ms"}

\* C15: every interaction summary contains the trigger type, the final intent,
\* the escalation state, the total steps, the wall-clock duration and the list
\* of capabilities invoked, and that list is the sequence of invocations in
\* execution order.
SummaryIsComplete ==
    \A i \in CompletionRows :
        /\ RequiredSummaryFields \subseteq DOMAIN audit_log[i]
        /\ audit_log[i].agents_used = InvocationNames

\* the entries finalize_node writes; none of them depends on the error flag of
\* an agent result
WrittenSummaryFields == {"actor_id", "action", "trigger_type", "intent", "agents_used",
                         "escalated", "steps"}

\* a summary row records a failure only through an entry besides those
ReportsFailure(row) == DOMAIN row \ WrittenSummaryFields # {}

\* C16: when a capability of the interaction returned a failure-flagged result,
\* the interaction summary written by finalize records that a capability failed.
FailureSurfaced ==
    \A i \in CompletionRows :
        (\E k \in 1..Len(agent_outputs) : agent_outputs[k].result.error)
            => ReportsFailure(audit_log[i])

\* C18: in an interaction with a live trigger type the Router's first decision
\* is the Concierge, whatever the classified intent, and the Concierge is the
\* first capability that runs.
LiveStartsWithIntake ==
    trigger_type \in {"inbound_call", "inbound_sms", "web_chat"} =>
        /\ (Len(trace) >= 2 => trace[2] = Decision("concierge"))
        /\ (Len(trace) >= 3 => trace[3] = Node("concierge"))
        /\ \A i \in Invocations : i >= 3

\* C18 witness (scenario A): an inbound_sms whose text contains "cancel" was
\* classified schedule_change and the Concierge ran first
LiveStartsWithIntakeWitness ==
    /\ trigger_type = "inbound_sms"
    /\ "cancel" \in TextWords(payload)
    /\ intent = "schedule_change"
    /\ Len(trace) >= 3
    /\ trace[1] = Node("classify")
    /\ trace[3] = Node("concierge")

-----------------------------------------------------------------------------
(* classify_intent alone, on every trigger type and payload *)

ClassifyKeywords == {"cancel", "reschedule", "move", "confirm", "yes",
                     "bill", "pay", "charge", "insurance"}

ClassifyTexts == {[kind |-> "absent", words |-> {}], [kind |-> "null", words |-> {}]}
                 \cup [kind : {"str"}, words : SUBSET ClassifyKeywords]

ClassifyPayloads == [intent : PayloadIntents, text : ClassifyTexts, job_type : PayloadJobTypes,
                     agent : {Absent}, patient_name : {Absent}]

ClassifyInit ==
    /\ trigger_type \in TriggerTypes
    /\ payload \in ClassifyPayloads
    /\ patient_ref = None
    /\ intent = None
    /\ agent_outputs = <<>>
    /\ current_agent = None
    /\ escalated = FALSE
    /\ escalation_reason = None
    /\ completed = FALSE
    /\ steps = 0
    /\ pc = "classify"
    /\ fault = "none"
    /\ supersteps = 0
    /\ audit_log = <<>>
    /\ appointments = InitialAppointments
    /\ result = <<>>
    /\ booking = NoBooking
    /\ trace = <<>>

ClassifyNext == Classify

SpecClassify == ClassifyInit /\ [][ClassifyNext]_vars

\* the keyword sets of the policy, in priority order
KeywordSets == <<[words |-> {"cancel", "reschedule", "move"}, label |-> "schedule_change"],
                 [words |-> {"confirm", "yes"}, label |-> "appointment_confirm"],
                 [words |-> {"bill", "pay", "charge", "insurance"}, label |-> "billing_inquiry"]>>

\* the keywords that occur in the text of the payload (none when it has no text)
PolicyWords == IF payload.text.kind = "str" THEN payload.text.words ELSE {}

Matching == {k \in 1..Len(KeywordSets) : KeywordSets[k].words \cap PolicyWords # {}}

SmsLabel == IF Matching = {} THEN "general_inquiry"
            ELSE KeywordSets[CHOOSE k \in Matching : \A j \in Matching : k <= j].label

\* the label the policy gives the trigger event
PolicyLabel ==
    CASE trigger_type = "inbound_call" ->
            (IF payload.intent # Absent THEN payload.intent ELSE "appointment_request")
      [] trigger_type = "inbound_sms" -> SmsLabel
      [] trigger_type = "manual_trigger" ->
            (IF payload.intent # Absent THEN payload.intent ELSE "manual")
      [] trigger_type = "scheduled_job" ->
            (IF payload.job_type # Absent THEN payload.job_type ELSE "recall_campaign")
      [] OTHER -> "unknown"

\* C17: for every trigger type and payload classify_intent ends with intent set
\* to the label of the policy (and steps = 1, nothing else changed).
ClassifyComputesPolicy ==
    trace # <<>> =>
        /\ fault = "none"
        /\ intent = PolicyLabel
        /\ steps = 1
        /\ agent_outputs = <<>> /\ ~escalated /\ ~completed /\ current_agent = None

-----------------------------------------------------------------------------
(* The appointment service: src/api/services/appointments.py               *)
(*                                                                         *)
(* The appointments table is a database shared by every caller. Each query *)
(* of a call is one step; between two queries of one call, queries of      *)
(* another call may run. A stored start_time or end_time is kept as a date *)
(* and the minute of that day, and is read back as it was written.         *)

BusinessStartHour == 8      \* BUSINESS_HOURS["start"]

BusinessEndHour == 17       \* BUSINESS_HOURS["end"]

SlotMinutes == 30           \* BUSINESS_HOURS["slot_minutes"]

\* BUSINESS_HOURS["days"]: Monday to Friday
BusinessDays == {"mon", "tue", "wed", "thu", "fri"}

AppointmentTypes == {"cleaning", "exam", "filling", "crown", "root_canal", "extraction",
                     "whitening", "consultation", "emergency", "follow_up", "general"}

APPOINTMENT_DURATIONS ==
    [t \in AppointmentTypes |->
        CASE t = "cleaning" -> 60
          [] t = "exam" -> 30
          [] t = "filling" -> 45
          [] t = "crown" -> 90
          [] t = "root_canal" -> 90
          [] t = "extraction" -> 60
          [] t = "whitening" -> 60
          [] t = "consultation" -> 30
          [] t = "emergency" -> 30
          [] t = "follow_up" -> 15
          [] OTHER -> 30]

\* a lookup that ignores the table
DurationAlwaysDefault(type) == 30

\* APPOINTMENT_DURATIONS.get(appointment_type, 30)
DurationOf(type) ==
    IF type \in AppointmentTypes THEN APPOINTMENT_DURATIONS[type] ELSE 30

\* a get_appointments_for_date that returns the cancelled rows too
AppointmentsForDateWithCancelled(appts, ws, date) ==
    {i \in 1..Len(appts) : /\ appts[i].workspace_id = ws
                           /\ appts[i].date = date}

\* the rows get_appointments_for_date returns: those of the workspace on the
\* date that are not cancelled
AppointmentsForDate(appts, ws, date) ==
    {i \in 1..Len(appts) : /\ appts[i].workspace_id = ws
                           /\ appts[i].date = date
                           /\ appts[i].status # "cancelled"}

\* a Python string is kept as the sequence of its characters
Digits == <<"0", "1", "2", "3", "4", "5", "6", "7", "8", "9">>

\* s[a:b]
Slice(s, a, b) == SubSeq(s, a + 1, IF b < Len(s) THEN b ELSE Len(s))

ValueError == -1

\* int(s) for a string without sign or blanks; ValueError when it is no number
IntOf(s) ==
    IF s = <<>> \/ \E i \in 1..Len(s) : \A d \in 1..10 : Digits[d] # s[i]
    THEN ValueError
    ELSE IF Len(s) = 1
    THEN (CHOOSE d \in 1..10 : Digits[d] = s[1]) - 1
    ELSE 10 * ((CHOOSE d \in 1..10 : Digits[d] = s[1]) - 1)
            + ((CHOOSE d \in 1..10 : Digits[d] = s[2]) - 1)

\* the minute of the day book_appointment starts the appointment at:
\* datetime(..., int(time[:2]), int(time[3:5]), ...), or ValueError
MinuteOf(time) ==
    LET h == IntOf(Slice(time, 0, 2))
        m == IntOf(Slice(time, 3, 5))
    IN  IF h = ValueError \/ m = ValueError \/ h > 23 \/ m > 59
        THEN ValueError
        ELSE h * 60 + m

\* f"{h:02d}:{m:02d}" of divmod(minutes, 60)
FormatTime(minutes) ==
    <<Digits[((minutes \div 60) \div 10) + 1], Digits[((minutes \div 60) % 10) + 1], ":",
      Digits[((minutes % 60) \div 10) + 1], Digits[((minutes % 60) % 10) + 1]>>

\* an is_free that only looks for an appointment with the same start
IsFreeSameStartOnly(appts, busy, slot_start, slot_end) ==
    \A i \in busy : appts[i].start_time # slot_start

\* is_free in check_availability: the slot overlaps no busy period
IsFree(appts, busy, slot_start, slot_end) ==
    \A i \in busy : ~(slot_start < appts[i].end_time /\ slot_end > appts[i].start_time)

\* the while loop of check_availability, from slot_start on
RECURSIVE FreeSlots(_, _, _, _)
FreeSlots(appts, busy, duration, slot_start) ==
    IF slot_start + duration <= BusinessEndHour * 60
    THEN (IF IsFree(appts, busy, slot_start, slot_start + duration)
          THEN <<[start |-> FormatTime(slot_start), end |-> FormatTime(slot_start + duration)]>>
          ELSE <<>>)
         \o FreeSlots(appts, busy, duration, slot_start + SlotMinutes)
    ELSE <<>>

\* check_availability: the list of free slots
check_availability(appts, ws, date, duration) ==
    IF date \notin BusinessDays THEN <<>>
    ELSE FreeSlots(appts, AppointmentsForDate(appts, ws, date), duration, BusinessStartHour * 60)

\* any(s["start"] == time for s in slots)
IsAvailable(slots, time) == \E i \in 1..Len(slots) : slots[i].start = time

\* slots[:5]
FirstFive(slots) == SubSeq(slots, 1, IF Len(slots) < 5 THEN Len(slots) ELSE 5)

\* the row book_appointment inserts
NewAppointment(ws, patient, date, time, type) ==
    [workspace_id |-> ws, patient_id |-> patient, date |-> date,
     start_time |-> MinuteOf(time), end_time |-> MinuteOf(time) + DurationOf(type),
     duration_minutes |-> DurationOf(type), appointment_type |-> type,
     status |-> "scheduled"]

\* the callers of the service that run at the same time
Callers == {1, 2}

BookingDates == {"mon", "sun"}

BookingTimes == {FormatTime(480), FormatTime(510)}      \* "08:00", "08:30"

BookingTypes == {"exam", "cleaning"}

BookRequests == [op : {"book"}, date : BookingDates, time : BookingTimes,
                 type : BookingTypes, appt_id : {0}]

RescheduleRequests == [op : {"reschedule"}, date : BookingDates, time : BookingTimes,
                       type : {"exam"}, appt_id : {1}]

\* the table before the calls: empty, or one exam at 09:00 on Monday
BookingStores == {<<>>, <<NewAppointment(workspace_id, "p1", "mon", FormatTime(540), "exam")>>}

\* a call that has not started
Call(req) == [req |-> req, pc |-> "start", duration |-> 0, outcome |-> "none"]

BookingInit ==
    /\ appointments \in BookingStores
    /\ booking \in [Callers -> {Call(r) : r \in BookRequests \cup RescheduleRequests}]
    /\ \A c \in Callers : booking[c].req.op = "reschedule" => appointments # <<>>
    /\ audit_log = <<>>
    /\ trigger_type = "system_event"
    /\ payload \in {[intent |-> Absent, text |-> [kind |-> "absent", words |-> {}],
                     job_type |-> Absent, agent |-> Absent, patient_name |-> Absent]}
    /\ patient_ref = "p1"
    /\ intent = None
    /\ agent_outputs = <<>>
    /\ current_agent = None
    /\ escalated = FALSE
    /\ escalation_reason = None
    /\ completed = FALSE
    /\ steps = 0
    /\ pc = "service"
    /\ fault = "none"
    /\ supersteps = 0
    /\ result = <<>>
    /\ trace = <<>>

orchestrator_vars == <<trigger_type, payload, patient_ref, intent, agent_outputs,
                       current_agent, escalated, escalation_reason, completed, steps,
                       pc, fault, supersteps, result, trace>>

\* book_appointment up to the test of is_available: "Verify slot is available"
BookCheck(c) ==
    /\ booking[c].pc = "start"
    /\ booking[c].req.op = "book"
    /\ LET r == booking[c].req
           slots == check_availability(appointments, workspace_id, r.date, DurationOf(r.type))
       IN  booking' = [booking EXCEPT ![c] =
                IF IsAvailable(slots, r.time)
                THEN [@ EXCEPT !.pc = "checked", !.duration = DurationOf(r.type)]
                ELSE [@ EXCEPT !.pc = "done", !.outcome = "slot_unavailable"]]
    /\ UNCHANGED <<appointments, audit_log, orchestrator_vars>>

\* book_appointment from the insert on
BookInsert(c) ==
    /\ booking[c].pc = "checked"
    /\ booking[c].req.op = "book"
    /\ LET r == booking[c].req IN
        /\ appointments' = Append(appointments,
                                  NewAppointment(workspace_id, patient_ref, r.date, r.time, r.type))
        /\ \E logged \in BOOLEAN :
            IF logged
            THEN /\ audit_log' = Append(audit_log, AuditEvent("concierge", "appointment_booked"))
                 /\ booking' = [booking EXCEPT ![c].pc = "done", ![c].outcome = "success"]
            ELSE /\ UNCHANGED audit_log
                 /\ booking' = [booking EXCEPT ![c].pc = "done", ![c].outcome = "raised"]
    /\ UNCHANGED orchestrator_vars

\* reschedule_appointment: "Get current appointment"
RescheduleRead(c) ==
    /\ booking[c].pc = "start"
    /\ booking[c].req.op = "reschedule"
    /\ LET r == booking[c].req IN
        booking' = [booking EXCEPT ![c] =
            IF r.appt_id \in 1..Len(appointments)
               /\ appointments[r.appt_id].workspace_id = workspace_id
            THEN [@ EXCEPT !.pc = "read", !.duration = appointments[r.appt_id].duration_minutes]
            ELSE [@ EXCEPT !.pc = "done", !.outcome = "not_found"]]
    /\ UNCHANGED <<appointments, audit_log, orchestrator_vars>>

\* reschedule_appointment: "Check if new slot is available"
RescheduleCheck(c) ==
    /\ booking[c].pc = "read"
    /\ LET r == booking[c].req
           slots == check_availability(appointments, workspace_id, r.date, booking[c].duration)
       IN  booking' = [booking EXCEPT ![c] =
                IF IsAvailable(slots, r.time)
                THEN [@ EXCEPT !.pc = "checked"]
                ELSE [@ EXCEPT !.pc = "done", !.outcome = "slot_unavailable"]]
    /\ UNCHANGED <<appointments, audit_log, orchestrator_vars>>

\* reschedule_appointment from the update on
RescheduleUpdate(c) ==
    /\ booking[c].pc = "checked"
    /\ booking[c].req.op = "reschedule"
    /\ LET r == booking[c].req IN
        /\ appointments' = [appointments EXCEPT ![r.appt_id] =
                [@ EXCEPT !.date = r.date, !.start_time = MinuteOf(r.time),
                          !.end_time = MinuteOf(r.time) + booking[c].duration,
                          !.status = "scheduled"]]
        /\ \E logged \in BOOLEAN :
            IF logged
            THEN /\ audit_log' = Append(audit_log, AuditEvent("concierge", "appointment_rescheduled"))
                 /\ booking' = [booking EXCEPT ![c].pc = "done", ![c].outcome = "success"]
            ELSE /\ UNCHANGED audit_log
                 /\ booking' = [booking EXCEPT ![c].pc = "done", ![c].outcome = "raised"]
    /\ UNCHANGED orchestrator_vars

BookingNext ==
    \E c \in Callers :
        \/ BookCheck(c)
        \/ BookInsert(c)
        \/ RescheduleRead(c)
        \/ RescheduleCheck(c)
        \/ RescheduleUpdate(c)

SpecBooking == BookingInit /\ [][BookingNext]_vars

\* do two rows of the table overlap in time
Overlap(a, b) ==
    /\ a.workspace_id = b.workspace_id
    /\ a.date = b.date
    /\ a.start_time < b.end_time
    /\ b.start_time < a.end_time

\* C20: whatever the interleaving of two calls, the table never holds two
\* non-cancelled appointments of a workspace that overlap in time.
NoDoubleBooking ==
    \A i, j \in 1..Len(appointments) :
        (i # j /\ appointments[i].status # "cancelled" /\ appointments[j].status # "cancelled")
            => ~Overlap(appointments[i], appointments[j])

-----------------------------------------------------------------------------
(* The appointment service, one call at a time                             *)

OtherWorkspace == "w2"

\* the patients table: id |-> workspace and is_active
PatientRecords ==
    [id \in {"p1", "p2", "p3", "p4", "p5", "p6", "p7", "q1"} |->
        [workspace_id |-> (IF id = "q1" THEN OtherWorkspace ELSE workspace_id),
         is_active |-> (id # "p3")]]

\* what a call returned (or that it raised)
Outcome(status, error, slots, id) ==
    [status |-> status, error |-> error, slots |-> slots, appointment_id |-> id]

\* the store, the audit table and the outcome after a call
After(appts, audit, outcome) == [appointments |-> appts, audit_log |-> audit, outcome |-> outcome]

\* book_appointment
BookCall(appts, audit, ws, r, logged) ==
    LET duration == DurationOf(r.type)
        slots == check_availability(appts, ws, r.date, duration)
        row == NewAppointment(ws, r.patient, r.date, r.time, r.type)
    IN  IF MinuteOf(r.time) = ValueError
        THEN After(appts, audit, Outcome("raised", "ValueError", <<>>, 0))
        ELSE IF ~IsAvailable(slots, r.time)
        THEN After(appts, audit,
                   Outcome("failure", "This time slot is not available", FirstFive(slots), 0))
        ELSE IF r.patient # None
                /\ (r.patient \notin DOMAIN PatientRecords
                    \/ PatientRecords[r.patient].workspace_id # ws)
        THEN After(appts, audit, Outcome("failure", "Patient ID not found", <<>>, 0))
        ELSE IF r.patient # None /\ ~PatientRecords[r.patient].is_active
        THEN After(appts, audit, Outcome("failure", "This patient record is inactive", <<>>, 0))
        ELSE IF logged
        THEN After(Append(appts, row),
                   Append(audit, AuditEvent("concierge", "appointment_booked")),
                   Outcome("success", "", <<>>, Len(appts) + 1))
        ELSE After(Append(appts, row), audit, Outcome("raised", "audit", <<>>, 0))

\* the position of a date in the week
DayNumber(date) ==
    CASE date = "mon" -> 1 [] date = "tue" -> 2 [] date = "wed" -> 3 [] date = "thu" -> 4
      [] date = "fri" -> 5 [] date = "sat" -> 6 [] OTHER -> 7

\* the rows cancel_appointment(patient_id=...) selects before order/limit(1);
\* every date of the model is later than now
UpcomingOf(appts, ws, pid) ==
    {i \in 1..Len(appts) : /\ appts[i].workspace_id = ws
                           /\ appts[i].patient_id = pid
                           /\ appts[i].status # "cancelled"}

\* .order("start_time").limit(1): the rows that can come first
FirstUpcoming(appts, ws, pid) ==
    {i \in UpcomingOf(appts, ws, pid) :
        \A j \in UpcomingOf(appts, ws, pid) :
            DayNumber(appts[i].date) * 1440 + appts[i].start_time
                <= DayNumber(appts[j].date) * 1440 + appts[j].start_time}

\* a select of cancel_appointment that does not filter on the workspace
CancelTargetsAnyWorkspace(appts, ws, r) ==
    IF r.appt_id # 0
    THEN {i \in 1..Len(appts) : i = r.appt_id}
    ELSE IF r.patient # None
    THEN FirstUpcoming(appts, ws, r.patient)
    ELSE {}

\* the rows the select of cancel_appointment can return
CancelTargets(appts, ws, r) ==
    IF r.appt_id # 0
    THEN {i \in 1..Len(appts) : i = r.appt_id /\ appts[i].workspace_id = ws}
    ELSE IF r.patient # None
    THEN FirstUpcoming(appts, ws, r.patient)
    ELSE {}

\* cancel_appointment when its select returned row i
CancelRow(appts, audit, i, logged) ==
    IF logged
    THEN After([appts EXCEPT ![i].status = "cancelled"],
               Append(audit, AuditEvent("concierge", "appointment_cancelled")),
               Outcome("success", "", <<>>, i))
    ELSE After([appts EXCEPT ![i].status = "cancelled"], audit,
               Outcome("raised", "audit", <<>>, 0))

\* cancel_appointment when its select returned no row: .single() raises, or
\* the call answers that the appointment was not found
CancelMiss(appts, audit, r, raises) ==
    IF r.appt_id = 0 /\ r.patient = None
    THEN After(appts, audit, Outcome("failure", "Need appointment_id or patient_id", <<>>, 0))
    ELSE IF raises
    THEN After(appts, audit, Outcome("raised", "single", <<>>, 0))
    ELSE After(appts, audit, Outcome("failure", "Appointment not found", <<>>, 0))

\* reschedule_appointment
RescheduleCall(appts, audit, ws, r, logged, raises) ==
    IF ~(r.appt_id \in 1..Len(appts) /\ appts[r.appt_id].workspace_id = ws)
    THEN (IF raises
          THEN After(appts, audit, Outcome("raised", "single", <<>>, 0))
          ELSE After(appts, audit, Outcome("failure", "Appointment not found", <<>>, 0)))
    ELSE LET duration == appts[r.appt_id].duration_minutes
             slots == check_availability(appts, ws, r.date, duration)
             moved == [appts EXCEPT ![r.appt_id] =
                          [@ EXCEPT !.date = r.date, !.start_time = MinuteOf(r.time),
                                    !.end_time = MinuteOf(r.time) + duration,
                                    !.status = "scheduled"]]
         IN  IF ~IsAvailable(slots, r.time)
             THEN After(appts, audit,
                        Outcome("failure", "The requested time is not available", FirstFive(slots), 0))
             ELSE IF logged
             THEN After(moved, Append(audit, AuditEvent("concierge", "appointment_rescheduled")),
                        Outcome("success", "", <<>>, r.appt_id))
             ELSE After(moved, audit, Outcome("raised", "audit", <<>>, 0))

\* Bound on the calls made one after the other.
MaxCalls == 2

Malformed == <<"9", ":", "0", "0">>     \* "9:00"

ServiceDates == {"mon", "sun"}

\* "08:00", "08:30", "08:15", "16:30", "9:00"
ServiceTimes == {FormatTime(480), FormatTime(510), FormatTime(495), FormatTime(990), Malformed}

ServiceTypes == {"exam", "cleaning", "checkup"}

ServiceDurations == {15, 30, 60, 90}

Request(op, date, time, type, patient, id, duration) ==
    [op |-> op, date |-> date, time |-> time, type |-> type, patient |-> patient,
     appt_id |-> id, duration |-> duration]

NoRequest == Request("none", "", <<>>, "", None, 0, 0)

ServiceBookRequests ==
    {Request("book", d, t, ty, "p1", 0, 0) : d \in ServiceDates, t \in ServiceTimes, ty \in ServiceTypes}
    \cup {Request("book", "mon", FormatTime(510), "exam", p, 0, 0) : p \in {None, "p3", "q1", "zz"}}

ServiceCancelRequests ==
    {Request("cancel", "", <<>>, "", None, i, 0) : i \in {1, 2, 3, 9}}
    \cup {Request("cancel", "", <<>>, "", p, 0, 0) : p \in {None, "p1", "q1"}}

ServiceRescheduleRequests ==
    {Request("reschedule", "mon", t, "", None, i, 0) :
        t \in {FormatTime(480), FormatTime(510), Malformed}, i \in {1, 2, 3, 9}}
    \cup {Request("reschedule", "sun", FormatTime(480), "", None, i, 0) : i \in {1, 2}}

ServiceCheckRequests ==
    {Request("check", d, <<>>, "", None, 0, n) : d \in ServiceDates \cup {"sat"}, n \in ServiceDurations}

\* rows the table may hold before the calls
OtherRow == NewAppointment(OtherWorkspace, "q1", "mon", FormatTime(480), "exam")

ExamRow == NewAppointment(workspace_id, "p1", "mon", FormatTime(540), "exam")

CancelledRow == [NewAppointment(workspace_id, "p2", "mon", FormatTime(510), "cleaning")
                    EXCEPT !.status = "cancelled"]

ServiceStores == {<<OtherRow>>, <<OtherRow, ExamRow>>, <<OtherRow, ExamRow, CancelledRow>>}

ServiceInit ==
    /\ appointments \in ServiceStores
    /\ booking = [calls |-> 0, req |-> NoRequest, outcome |-> Outcome("none", "", <<>>, 0)]
    /\ audit_log = <<>>
    /\ trigger_type = "system_event"
    /\ payload \in {[intent |-> Absent, text |-> [kind |-> "absent", words |-> {}],
                     job_type |-> Absent, agent |-> Absent, patient_name |-> Absent]}
    /\ patient_ref = None
    /\ intent = None
    /\ agent_outputs = <<>>
    /\ current_agent = None
    /\ escalated = FALSE
    /\ escalation_reason = None
    /\ completed = FALSE
    /\ steps = 0
    /\ pc = "service"
    /\ fault = "none"
    /\ supersteps = 0
    /\ result = <<>>
    /\ trace = <<>>

\* the call returns: the tables and the outcome are those of after
Returns(r, after) ==
    /\ appointments' = after.appointments
    /\ audit_log' = after.audit_log
    /\ booking' = [calls |-> booking.calls + 1, req |-> r, outcome |-> after.outcome]
    /\ UNCHANGED orchestrator_vars

ServiceBook ==
    /\ booking.calls < MaxCalls
    /\ \E r \in ServiceBookRequests, logged \in BOOLEAN :
        Returns(r, BookCall(appointments, audit_log, workspace_id, r, logged))

ServiceCancel ==
    /\ booking.calls < MaxCalls
    /\ \E r \in ServiceCancelRequests, logged \in BOOLEAN, raises \in BOOLEAN :
        IF CancelTargets(appointments, workspace_id, r) = {}
        THEN Returns(r, CancelMiss(appointments, audit_log, r, raises))
        ELSE \E i \in CancelTargets(appointments, workspace_id, r) :
                Returns(r, CancelRow(appointments, audit_log, i, logged))

ServiceReschedule ==
    /\ booking.calls < MaxCalls
    /\ \E r \in ServiceRescheduleRequests, logged \in BOOLEAN, raises \in BOOLEAN :
        Returns(r, RescheduleCall(appointments, audit_log, workspace_id, r, logged, raises))

ServiceCheck ==
    /\ booking.calls < MaxCalls
    /\ \E r \in ServiceCheckRequests :
        Returns(r, After(appointments, audit_log,
                         Outcome("success", "",
                                 check_availability(appointments, workspace_id, r.date, r.duration), 0)))

ServiceNext ==
    \/ ServiceBook
    \/ ServiceCancel
    \/ ServiceReschedule
    \/ ServiceCheck

SpecService == ServiceInit /\ [][ServiceNext]_vars

\* the call that has just returned is a call of op
Called(op) == booking'.calls # booking.calls /\ booking'.req.op = op

\* the request of the call that has just returned is for a start that
\* check_availability does not list for the duration of the type
Unlisted ==
    ~IsAvailable(check_availability(appointments, workspace_id, booking'.req.date,
                                    DurationOf(booking'.req.type)),
                 booking'.req.time)

\* C21: a book_appointment call for a date and time that check_availability
\* does not list as a free start returns success=false with a non-empty list
\* of alternative slots, creates no appointment and writes no audit event.
UnlistedBookingRefused ==
    [][(Called("book") /\ Unlisted) =>
            /\ booking'.outcome.status = "failure"
            /\ booking'.outcome.slots # <<>>
            /\ appointments' = appointments
            /\ audit_log' = audit_log]_vars

\* the starts of the slots of a date: 08:00 plus a multiple of 30 minutes,
\* ending by 17:00, overlapping no appointment of the workspace on that date
\* that is not cancelled; none on Saturday and Sunday
PolicyStarts(appts, ws, date, duration) ==
    IF date \in {"sat", "sun"} THEN {}
    ELSE {t \in 0..(24 * 60) :
            /\ t >= 8 * 60 /\ (t - 8 * 60) % 30 = 0
            /\ t + duration <= 17 * 60
            /\ \A i \in 1..Len(appts) :
                (appts[i].workspace_id = ws /\ appts[i].date = date /\ appts[i].status # "cancelled")
                    => (t + duration <= appts[i].start_time \/ appts[i].end_time <= t)}

\* the (start, end) minutes of the slots of a list
SlotMinutesOf(slots) == {<<MinuteOf(slots[i].start), MinuteOf(slots[i].end)>> : i \in 1..Len(slots)}

\* the durations of the per-type table
PolicyDuration(type) ==
    CASE type = "cleaning" -> 60 [] type = "exam" -> 30 [] type = "filling" -> 45
      [] type = "crown" -> 90 [] type = "root_canal" -> 90 [] type = "extraction" -> 60
      [] type = "whitening" -> 60 [] type = "consultation" -> 30 [] type = "emergency" -> 30
      [] type = "follow_up" -> 15 [] type = "general" -> 30 [] OTHER -> 30

\* C28: check_availability returns exactly the slots that start at 08:00 plus
\* a multiple of 30 minutes, last the duration, end by 17:00 and overlap no
\* appointment of the date that is not cancelled, and none on Saturday or
\* Sunday; an appointment that book_appointment created lasts what the table
\* gives for its type (30 minutes for a type the table does not have).
SlotArithmetic ==
    /\ booking.req.op = "check" =>
        /\ SlotMinutesOf(booking.outcome.slots)
            = {<<t, t + booking.req.duration>> :
                    t \in PolicyStarts(appointments, workspace_id, booking.req.date, booking.req.duration)}
        /\ Len(booking.outcome.slots)
            = Cardinality(PolicyStarts(appointments, workspace_id, booking.req.date, booking.req.duration))
    /\ (booking.req.op = "book" /\ booking.outcome.status = "success") =>
        LET row == appointments[booking.outcome.appointment_id] IN
            /\ row.duration_minutes = PolicyDuration(booking.req.type)
            /\ row.end_time = row.start_time + PolicyDuration(booking.req.type)
            /\ row.start_time = MinuteOf(booking.req.time)

\* a Monday with an appointment booked by the call before lists some slots
\* and not all
SlotArithmeticWitness ==
    /\ booking.calls = 2
    /\ booking.req.op = "check"
    /\ booking.req.date = "mon"
    /\ booking.req.duration = 60
    /\ Len(appointments) = 3
    /\ appointments[3].appointment_type = "cleaning"
    /\ appointments[3].status = "scheduled"
    /\ ~IsAvailable(booking.outcome.slots, FormatTime(480))
    /\ IsAvailable(booking.outcome.slots, FormatTime(600))

\* the outcomes a call of request r can have on a store
OutcomesOn(appts, r) ==
    CASE r.op = "book" ->
            {BookCall(appts, <<>>, workspace_id, r, logged).outcome : logged \in BOOLEAN}
      [] r.op = "cancel" ->
            IF CancelTargets(appts, workspace_id, r) = {}
            THEN {CancelMiss(appts, <<>>, r, raises).outcome : raises \in BOOLEAN}
            ELSE {CancelRow(appts, <<>>, i, logged).outcome :
                    i \in CancelTargets(appts, workspace_id, r), logged \in BOOLEAN}
      [] r.op = "reschedule" ->
            {RescheduleCall(appts, <<>>, workspace_id, r, logged, raises).outcome :
                    logged \in BOOLEAN, raises \in BOOLEAN}
      [] OTHER ->
            {Outcome("success", "", check_availability(appts, workspace_id, r.date, r.duration), 0)}

\* the store with the content of every row of another workspace blanked
Blanked(appts) ==
    [i \in 1..Len(appts) |->
        IF appts[i].workspace_id = workspace_id
        THEN appts[i]
        ELSE [appts[i] EXCEPT !.patient_id = None, !.date = "", !.start_time = 0,
                              !.end_time = 0, !.status = "cancelled"]]

\* C29: a call made for a workspace leaves every appointment of another
\* workspace as it was and creates rows of its own workspace only, also when
\* it is given the id of an appointment or of a patient of another workspace,
\* and its outcome does not depend on the content of the rows of other
\* workspaces.
WorkspaceScoped ==
    [][booking'.calls # booking.calls =>
            /\ Len(appointments') >= Len(appointments)
            /\ \A i \in 1..Len(appointments) :
                appointments[i].workspace_id # workspace_id => appointments'[i] = appointments[i]
            /\ \A i \in (Len(appointments) + 1)..Len(appointments') :
                appointments'[i].workspace_id = workspace_id
            /\ booking'.outcome \in OutcomesOn(Blanked(appointments), booking'.req)]_vars

\* a booking at Monday 08:00, where the other workspace has an appointment,
\* succeeded, and then a cancel given the id of that appointment failed
WorkspaceScopedWitness ==
    /\ booking.calls = 2
    /\ booking.req.op = "cancel"
    /\ booking.req.appt_id = 1
    /\ booking.outcome.status \in {"failure", "raised"}
    /\ appointments[1] = OtherRow
    /\ appointments[Len(appointments)].workspace_id = workspace_id
    /\ appointments[Len(appointments)].start_time = 480
    /\ appointments[Len(appointments)].date = "mon"
    /\ appointments[Len(appointments)].status = "scheduled"

-----------------------------------------------------------------------------
(* Patient lookup by name: lookup_patient_by_name                          *)

\* str.lower() on the characters the model uses
LowerChar(c) == IF c = "J" THEN "j" ELSE IF c = "L" THEN "l" ELSE c

Lower(s) == [i \in 1..Len(s) |-> LowerChar(s[i])]

\* str.strip()
RECURSIVE Strip(_)
Strip(s) ==
    IF s = <<>> THEN s
    ELSE IF s[1] = " " THEN Strip(Tail(s))
    ELSE IF s[Len(s)] = " " THEN Strip(SubSeq(s, 1, Len(s) - 1))
    ELSE s

\* (p.get("full_name") or "").strip().lower()
NameOf(p) == IF p.full_name = None THEN <<>> ELSE Lower(Strip(p.full_name))

\* sub in s
Contains(sub, s) ==
    \E i \in 0..(Len(s) - Len(sub)) : SubSeq(s, i + 1, i + Len(sub)) = sub

\* s.split()[0] of a stripped string: its characters up to the first blank
RECURSIVE FirstWord(_)
FirstWord(s) ==
    IF s = <<>> \/ s[1] = " " THEN <<>> ELSE <<s[1]>> \o FirstWord(Tail(s))

\* SequenceMatcher.find_longest_match: the longest block a[i+1..i+k] =
\* b[j+1..j+k], the one that starts earliest in a and then earliest in b
LongestMatch(a, b) ==
    LET IsBlock(i, j, k) ==
            /\ i + k <= Len(a)
            /\ j + k <= Len(b)
            /\ SubSeq(a, i + 1, i + k) = SubSeq(b, j + 1, j + k)
        Sizes == {k \in 1..Len(a) : \E i \in 0..Len(a), j \in 0..Len(b) : IsBlock(i, j, k)}
        size == CHOOSE k \in Sizes : \A n \in Sizes : n <= k
        Starts == {i \in 0..Len(a) : \E j \in 0..Len(b) : IsBlock(i, j, size)}
        start == CHOOSE i \in Starts : \A n \in Starts : i <= n
        Others == {j \in 0..Len(b) : IsBlock(start, j, size)}
    IN  IF Sizes = {} THEN <<0, 0, 0>>
        ELSE <<start, CHOOSE j \in Others : \A n \in Others : j <= n, size>>

\* the sum of the sizes of SequenceMatcher.get_matching_blocks
RECURSIVE Matches(_, _)
Matches(a, b) ==
    IF a = <<>> \/ b = <<>> THEN 0
    ELSE LET m == LongestMatch(a, b) IN
        IF m[3] = 0 THEN 0
        ELSE m[3] + Matches(SubSeq(a, 1, m[1]), SubSeq(b, 1, m[2]))
                  + Matches(SubSeq(a, m[1] + m[3] + 1, Len(a)), SubSeq(b, m[2] + m[3] + 1, Len(b)))

\* SequenceMatcher(None, a, b).ratio() as the fraction num / den
Ratio(a, b) ==
    IF Len(a) + Len(b) = 0 THEN [num |-> 1, den |-> 1]
    ELSE [num |-> 2 * Matches(a, b), den |-> Len(a) + Len(b)]

\* ratio >= 0.65
Similar(r) == r.num * 100 >= 65 * r.den

\* x > y, x = y for ratios
RatioGreater(x, y) == x.num * y.den > y.num * x.den

RatioEqual(x, y) == x.num * y.den = y.num * x.den

\* the positions 1..n of a list that satisfy a test, in the order of the list
Filter(n, Test(_)) ==
    LET S == {i \in 1..n : Test(i)} IN
        [k \in 1..Cardinality(S) |-> CHOOSE i \in S : Cardinality({j \in S : j < i}) = k - 1]

\* _safe_patient of every match, however many
SafeAll(patients, positions) ==
    [k \in 1..Len(positions) |-> patients[positions[k]].id]

\* _safe_patient of each of the first five
SafeFirstFive(patients, positions) ==
    [k \in 1..(IF Len(positions) < 5 THEN Len(positions) ELSE 5) |-> patients[positions[k]].id]

Found(patients, i) == [kind |-> "found", found |-> TRUE, patient |-> patients[i].id, candidates |-> <<>>]

Ambiguous(patients, positions) ==
    [kind |-> "candidates", found |-> FALSE, patient |-> None,
     candidates |-> SafeFirstFive(patients, positions)]

NotFound == [kind |-> "not_found", found |-> FALSE, patient |-> None, candidates |-> <<>>]

LookupRaised == [kind |-> "raise", found |-> FALSE, patient |-> None, candidates |-> <<>>]

\* fuzzy_matches.sort(key=ratio, reverse=True): a stable sort of the positions
SortByRatio(fuzzy, ratio) ==
    LET Before(i, j) == \/ RatioGreater(ratio[fuzzy[i]], ratio[fuzzy[j]])
                        \/ RatioEqual(ratio[fuzzy[i]], ratio[fuzzy[j]]) /\ i < j
    IN  [k \in 1..Len(fuzzy) |->
            fuzzy[CHOOSE i \in 1..Len(fuzzy) :
                     Cardinality({j \in 1..Len(fuzzy) : Before(j, i)}) = k - 1]]

\* the end of stage 4. gap_holds decides the test "difference >= 0.15" where
\* the two ratios differ by 0.15 exactly, which in floating point can come out
\* either way
FuzzyDecision(patients, sorted, a, b, gap_holds) ==
    IF (a.num * b.den - b.num * a.den) * 100 > 15 * a.den * b.den
       \/ ((a.num * b.den - b.num * a.den) * 100 = 15 * a.den * b.den /\ gap_holds)
    THEN Found(patients, sorted[1])
    ELSE Ambiguous(patients, sorted)

FuzzySorted(patients, ratio, sorted, gap_holds) ==
    IF Len(sorted) = 0 THEN NotFound
    ELSE IF Len(sorted) = 1 THEN Found(patients, sorted[1])
    ELSE FuzzyDecision(patients, sorted, ratio[sorted[1]], ratio[sorted[2]], gap_holds)

FuzzyRatios(patients, ratio, gap_holds) ==
    FuzzySorted(patients, ratio,
                SortByRatio(Filter(Len(patients), LAMBDA i : Similar(ratio[i])), ratio),
                gap_holds)

\* stage 4 of lookup_patient_by_name: fuzzy match
FuzzyStage(patients, search, gap_holds) ==
    FuzzyRatios(patients, [i \in 1..Len(patients) |-> Ratio(search, NameOf(patients[i]))], gap_holds)

\* lookup_patient_by_name on the list the list_patients RPC returned
lookup_patient_by_name(patients, patient_name, rpc_fails, gap_holds) ==
    LET search == Lower(Strip(patient_name))
        IsExact(i) == NameOf(patients[i]) = search
        IsPartial(i) == Contains(search, NameOf(patients[i]))
        IsFirst(i) == FirstWord(NameOf(patients[i])) = FirstWord(search)
        exact == Filter(Len(patients), IsExact)
        partial == Filter(Len(patients), IsPartial)
        first_matches == Filter(Len(patients), IsFirst)
    IN  IF rpc_fails \/ patients = <<>> THEN NotFound
        ELSE IF Len(exact) = 1 THEN Found(patients, exact[1])
        ELSE IF Len(partial) = 1 THEN Found(patients, partial[1])
        ELSE IF Len(partial) > 1 THEN Ambiguous(patients, partial)
        ELSE IF search # <<>> /\ \E i \in 1..Len(patients) : NameOf(patients[i]) = <<>>
        THEN LookupRaised       \* "".split()[0]: IndexError
        ELSE IF search # <<>> /\ Len(first_matches) = 1 THEN Found(patients, first_matches[1])
        ELSE IF search # <<>> /\ Len(first_matches) > 1 THEN Ambiguous(patients, first_matches)
        ELSE FuzzyStage(patients, search, gap_holds)

-----------------------------------------------------------------------------
(* The voice tool handlers: resolve_patient and handle_function_call       *)

\* a row of the list the list_patients RPC returns
Patient(id, full_name) == [id |-> id, full_name |-> full_name]

JoLi == Patient("p1", <<"J", "o", " ", "L", "i">>)

JanLi == Patient("p2", <<"J", "a", "n", " ", "L", "i">>)

JoLim == Patient("p3", <<"J", "o", " ", "L", "i", "m">>)

Nameless == Patient("p4", None)

AlLi == Patient("p5", <<"a", "l", " ", "L", "i">>)

BoLi == Patient("p6", <<"b", "o", " ", "L", "i">>)

CyLi == Patient("p7", <<"c", "y", " ", "L", "i">>)

\* the lists of up to three of the first four patients, and one list of six
PatientLists ==
    {<<>>}
    \cup {<<a>> : a \in {JoLi, JanLi, JoLim, Nameless}}
    \cup {l \in {JoLi, JanLi, JoLim, Nameless} \X {JoLi, JanLi, JoLim, Nameless} : l[1] # l[2]}
    \cup {l \in {JoLi} \X {JanLi, JoLim, Nameless} \X {JanLi, JoLim, Nameless} : l[2] # l[3]}
    \cup {<<JoLi, JanLi, JoLim, AlLi, BoLi, CyLi>>}

\* params.get("patient_name", ""): "jo li", " Jo Li ", "li", "jo", "zed",
\* "jon li", a blank, and the key missing
ParamNames ==
    {<<"j", "o", " ", "l", "i">>, <<" ", "J", "o", " ", "L", "i", " ">>, <<"l", "i">>,
     <<"j", "o">>, <<"z", "e", "d">>, <<"j", "o", "n", " ", "l", "i">>, <<" ">>, <<>>}

HandlerFunctions == {"book_appointment", "cancel_appointment", "reschedule_appointment"}

P2Row == NewAppointment(workspace_id, "p2", "mon", FormatTime(600), "exam")

\* Bound on the tool calls handled one after the other.
MaxHandlerCalls == 1

NoLookup == [kind |-> "none", found |-> FALSE, patient |-> None, candidates |-> <<>>]

VapiInit ==
    /\ appointments = <<OtherRow, ExamRow, P2Row>>
    /\ \E patients \in PatientLists :
        booking = [calls |-> 0, patients |-> patients, rpc_fails |-> FALSE,
                   fn_name |-> "none", patient_name |-> <<>>, patient_ref |-> None,
                   lookup |-> NoLookup, called |-> "none",
                   outcome |-> Outcome("none", "", <<>>, 0)]
    /\ audit_log = <<>>
    /\ trigger_type = "inbound_call"
    /\ payload \in {[intent |-> Absent, text |-> [kind |-> "absent", words |-> {}],
                     job_type |-> Absent, agent |-> Absent, patient_name |-> Absent]}
    /\ patient_ref = None
    /\ intent = None
    /\ agent_outputs = <<>>
    /\ current_agent = None
    /\ escalated = FALSE
    /\ escalation_reason = None
    /\ completed = FALSE
    /\ steps = 0
    /\ pc = "handler"
    /\ fault = "none"
    /\ supersteps = 0
    /\ result = <<>>
    /\ trace = <<>>

\* a resolve_patient that goes on with the first candidate
resolve_patient_first_candidate(patient_name, ref, lookup) ==
    IF patient_name # <<>>
    THEN (IF lookup.kind = "raise" THEN [patient_id |-> None, error |-> "raised"]
          ELSE IF lookup.found /\ lookup.patient # None
          THEN [patient_id |-> lookup.patient, error |-> ""]
          ELSE IF lookup.candidates # <<>>
          THEN [patient_id |-> lookup.candidates[1], error |-> ""]
          ELSE [patient_id |-> None, error |-> "I don't have a patient of that name on file"])
    ELSE IF ref # None
    THEN [patient_id |-> ref, error |-> ""]
    ELSE [patient_id |-> None, error |-> "I need the patient's full name"]

\* resolve_patient: (patient_id, error_message); error is "" for None
resolve_patient(patient_name, ref, lookup) ==
    IF patient_name # <<>>
    THEN (IF lookup.kind = "raise" THEN [patient_id |-> None, error |-> "raised"]
          ELSE IF lookup.found /\ lookup.patient # None
          THEN [patient_id |-> lookup.patient, error |-> ""]
          ELSE IF lookup.candidates # <<>>
          THEN [patient_id |-> None, error |-> "I found multiple patients matching that name"]
          ELSE [patient_id |-> None, error |-> "I don't have a patient of that name on file"])
    ELSE IF ref # None
    THEN [patient_id |-> ref, error |-> ""]
    ELSE [patient_id |-> None, error |-> "I need the patient's full name"]

\* the tables and the outcome after the scheduling call of the handler fn
HandlerCall(fn, patient_id, logged, raises) ==
    IF fn = "book_appointment"
    THEN {BookCall(appointments, audit_log, workspace_id,
                   Request("book", "mon", FormatTime(480), "exam", patient_id, 0, 0), logged)}
    ELSE IF fn = "cancel_appointment"
    THEN LET r == Request("cancel", "", <<>>, "", patient_id, 0, 0) IN
            IF CancelTargets(appointments, workspace_id, r) = {}
            THEN {CancelMiss(appointments, audit_log, r, raises)}
            ELSE {CancelRow(appointments, audit_log, i, logged) :
                    i \in CancelTargets(appointments, workspace_id, r)}
    ELSE \* reschedule_appointment of appts[0] of get_patient_appointments
         IF FirstUpcoming(appointments, workspace_id, patient_id) = {}
         THEN {After(appointments, audit_log,
                     Outcome("failure", "I don't see any upcoming appointments", <<>>, 0))}
         ELSE {RescheduleCall(appointments, audit_log, workspace_id,
                              Request("reschedule", "mon", FormatTime(510), "", None, i, 0),
                              logged, raises) :
                    i \in FirstUpcoming(appointments, workspace_id, patient_id)}

\* handle_function_call for the book, cancel and reschedule tools
HandleFunctionCall ==
    /\ booking.calls < MaxHandlerCalls
    /\ \E name \in ParamNames, rpc_fails \in BOOLEAN, gap_holds \in BOOLEAN :
        \E lookup \in {IF name # <<>>
                        THEN lookup_patient_by_name(booking.patients, name, rpc_fails, gap_holds)
                        ELSE NoLookup} :
        \E fn \in HandlerFunctions, ref \in {None, "p2"}, logged \in BOOLEAN, raises \in BOOLEAN :
        LET resolved == resolve_patient(name, ref, lookup)
            call == [calls |-> booking.calls + 1, patients |-> booking.patients,
                     rpc_fails |-> (name # <<>> /\ rpc_fails),
                     fn_name |-> fn, patient_name |-> name, patient_ref |-> ref,
                     lookup |-> lookup]
        IN  IF resolved.error # ""
            THEN /\ booking' = call @@ [called |-> "none",
                                        outcome |-> Outcome("failure", resolved.error, <<>>, 0)]
                 /\ UNCHANGED <<appointments, audit_log>>
            ELSE \E after \in HandlerCall(fn, resolved.patient_id, logged, raises) :
                 /\ booking' = call @@ [called |-> fn, outcome |-> after.outcome]
                 /\ appointments' = after.appointments
                 /\ audit_log' = after.audit_log
    /\ UNCHANGED orchestrator_vars

VapiNext == HandleFunctionCall

SpecVapi == VapiInit /\ [][VapiNext]_vars

\* the ids of the records whose full name contains the name, whatever the
\* case and the blanks around it, in the order of the list
MatchingIds(patients, name) ==
    LET hits == Filter(Len(patients), LAMBDA i : Contains(Lower(Strip(name)), NameOf(patients[i])))
    IN  [k \in 1..Len(hits) |-> patients[hits[k]].id]

\* the records whose full name equals the name
EqualIds(patients, name) ==
    {patients[i].id : i \in {j \in 1..Len(patients) : NameOf(patients[j]) = Lower(Strip(name))}}

\* the handled call gave a name that more than one record matches and that
\* is not the full name of exactly one record
NameIsAmbiguous(call) ==
    /\ call.patient_name # <<>>
    /\ ~call.rpc_fails
    /\ Len(MatchingIds(call.patients, call.patient_name)) > 1
    /\ Cardinality(EqualIds(call.patients, call.patient_name)) # 1

\* the handler refused: no call of the scheduling service, nothing created,
\* cancelled or moved, an error answered
Refused ==
    /\ booking'.called = "none"
    /\ booking'.outcome.status = "failure"
    /\ appointments' = appointments
    /\ audit_log' = audit_log

\* C22 as stated: a name that matches more than one record is answered with
\* found=false and all the matching patients as candidates, and the book,
\* cancel and reschedule handlers refuse to proceed.
AmbiguousNameListsAll ==
    [][(booking'.calls # booking.calls /\ NameIsAmbiguous(booking')) =>
            /\ ~booking'.lookup.found
            /\ booking'.lookup.candidates = MatchingIds(booking'.patients, booking'.patient_name)
            /\ Refused]_vars

\* C22 amended: the candidates are the first five of the matching patients.
AmbiguousNameListsFirstFive ==
    [][(booking'.calls # booking.calls /\ NameIsAmbiguous(booking')) =>
            /\ ~booking'.lookup.found
            /\ booking'.lookup.patient = None
            /\ LET all == MatchingIds(booking'.patients, booking'.patient_name) IN
                booking'.lookup.candidates = SubSeq(all, 1, IF Len(all) < 5 THEN Len(all) ELSE 5)
            /\ Refused]_vars

\* "li" with six patients named Li: five candidates, and the booking refused
AmbiguousNameWitness ==
    /\ booking.fn_name = "book_appointment"
    /\ booking.patient_name = <<"l", "i">>
    /\ Len(booking.patients) = 6
    /\ booking.lookup.candidates = <<"p1", "p2", "p3", "p5", "p6">>
    /\ booking.called = "none"
    /\ Len(appointments) = 3

\* the name matches no record at any stage: it is neither contained in a full
\* name (so not equal to one either), nor the first word of one, nor similar
\* to one
MatchesNone(patients, name) ==
    LET search == Lower(Strip(name)) IN
        /\ patients # <<>>
        /\ search # <<>>
        /\ \A i \in 1..Len(patients) :
            /\ ~Contains(search, NameOf(patients[i]))
            /\ FirstWord(NameOf(patients[i])) # FirstWord(search)
            /\ ~Similar(Ratio(search, NameOf(patients[i])))

\* the handled call looked a name up in the list the RPC returned
LookedUp(call) == call.calls > 0 /\ call.patient_name # <<>> /\ ~call.rpc_fails

\* the first half of C23: a name that is the full name of exactly one record
\* is answered with found=true and that record
ExactNameFound ==
    (LookedUp(booking) /\ Cardinality(EqualIds(booking.patients, booking.patient_name)) = 1) =>
        /\ booking.lookup.found
        /\ booking.lookup.patient \in EqualIds(booking.patients, booking.patient_name)
        /\ booking.lookup.candidates = <<>>

\* C23: a name that equals the full name of exactly one record is answered
\* with found=true and that record, also when other full names contain it; a
\* name that matches no record at any stage is answered with found=false and
\* no candidates.
LookupRoundTrip ==
    /\ ExactNameFound
    /\ (LookedUp(booking) /\ MatchesNone(booking.patients, booking.patient_name)) =>
        /\ booking.lookup.kind = "not_found"
        /\ ~booking.lookup.found
        /\ booking.lookup.candidates = <<>>

\* "jo li" with Jo Li and Jo Lim on file: the exact match wins
ExactNameWitness ==
    /\ booking.patient_name = <<"j", "o", " ", "l", "i">>
    /\ booking.patients = <<JoLi, JoLim>>
    /\ booking.lookup.found
    /\ booking.lookup.patient = "p1"

\* "zed" with only named patients on file: not found, no candidates
NoMatchWitness ==
    /\ booking.patient_name = <<"z", "e", "d">>
    /\ booking.patients = <<JoLi, JanLi>>
    /\ booking.lookup.kind = "not_found"

\* "zed" with a patient without a name on file: the lookup raises
NamelessRaisesWitness ==
    /\ booking.patient_name = <<"z", "e", "d">>
    /\ booking.patients = <<JoLi, Nameless>>
    /\ booking.lookup.kind = "raise"

-----------------------------------------------------------------------------
(* run_concierge with the tool calls it makes                              *)

\* the keywords of payload.text that run_concierge tests
ConciergeTexts ==
    {[kind |-> "absent", words |-> {}], [kind |-> "null", words |-> {}]}
    \cup [kind : {"str"}, words : SUBSET {"cancel", "book", "appointment"}]

ConciergePayloads ==
    [intent : {Absent}, text : ConciergeTexts, job_type : {Absent}, agent : {Absent},
     patient_name : PayloadNames]

NoToolCalls == [ran |-> FALSE, lookup |-> "none", ref |-> None, calls |-> <<>>]

\* the interaction when the Router has chosen the Concierge for the first time
ConciergeInit ==
    /\ trigger_type \in {"inbound_call", "web_chat"}
    /\ payload \in ConciergePayloads
    /\ patient_ref \in PatientRefs
    /\ intent = IntentOf(trigger_type, payload)
    /\ agent_outputs = <<>>
    /\ current_agent = None
    /\ escalated = FALSE
    /\ escalation_reason = None
    /\ completed = FALSE
    /\ steps = 1
    /\ pc = "concierge"
    /\ fault = "none"
    /\ supersteps = 1
    /\ audit_log = <<>>
    /\ appointments = InitialAppointments
    /\ result = <<>>
    /\ booking = NoToolCalls
    /\ trace = <<Node("classify"), Decision("concierge")>>

\* a run_concierge that calls cancel_appointment whenever the text says cancel
ToolCallsCancelUnresolved(ref0, ref, p, words) ==
    (IF p.patient_name # Absent /\ ref0 = None THEN <<"lookup_patient_by_name">> ELSE <<>>)
    \o (IF ref # None /\ AnyIn({"cancel", "reschedule", "move", "change", "appointment"}, words)
        THEN <<"get_patient_appointments">> ELSE <<>>)
    \o (IF AnyIn({"book", "schedule", "appointment", "available", "opening", "reschedule", "next"}, words)
        THEN <<"find_next_available">> ELSE <<>>)
    \o (IF "cancel" \in words THEN <<"cancel_appointment">> ELSE <<>>)

\* the service functions run_concierge calls, in the order it calls them
ToolCalls(ref0, ref, p, words) ==
    (IF p.patient_name # Absent /\ ref0 = None THEN <<"lookup_patient_by_name">> ELSE <<>>)
    \o (IF ref # None /\ AnyIn({"cancel", "reschedule", "move", "change", "appointment"}, words)
        THEN <<"get_patient_appointments">> ELSE <<>>)
    \o (IF AnyIn({"book", "schedule", "appointment", "available", "opening", "reschedule", "next"}, words)
        THEN <<"find_next_available">> ELSE <<>>)
    \o (IF ref # None /\ "cancel" \in words THEN <<"cancel_appointment">> ELSE <<>>)

\* run_concierge_node, with the calls of the run kept in booking
ConciergeRun ==
    /\ pc = "concierge"
    /\ \E lookup \in LookupOutcomes, reply \in ConciergeReplies,
          cancel_logged \in BOOLEAN, logged \in BOOLEAN :
        LET words == TextWords(payload)
            ref == ResolvedRef(patient_ref, payload, lookup)
            cancelled == CancelHits(ref, words, appointments)
            tools == ToolsUsed(patient_ref, ref, payload, lookup, words, appointments, cancel_logged)
            res == ConciergeResult(reply, logged, intent, tools)
        IN  /\ appointments' = AfterCancel(ref, words, appointments)
            /\ audit_log' = ConciergeAudit(audit_log, cancelled, cancel_logged, reply, logged)
            /\ agent_outputs' = Put(agent_outputs, "concierge", res)
            /\ current_agent' = "concierge"
            /\ steps' = IncSteps(steps)
            /\ IF res.escalate
               THEN /\ escalated' = TRUE
                    /\ escalation_reason' = EscalationReasonOf(res)
               ELSE UNCHANGED <<escalated, escalation_reason>>
            /\ booking' = [ran |-> TRUE,
                           lookup |-> IF payload.patient_name # Absent /\ patient_ref = None
                                      THEN lookup.kind ELSE "none",
                           ref |-> ref,
                           calls |-> ToolCalls(patient_ref, ref, payload, words)]
    /\ pc' = "route"
    /\ supersteps' = supersteps + 1
    /\ trace' = Append(trace, Node("concierge"))
    /\ UNCHANGED <<trigger_type, payload, patient_ref, intent, completed, fault, result>>

ConciergeNext == ConciergeRun

SpecConcierge == ConciergeInit /\ [][ConciergeNext]_vars

InCalls(name) == \E i \in 1..Len(booking.calls) : booking.calls[i] = name

\* C24: a run without a supplied patient_ref whose name lookup answers
\* several candidates or not found, or fails, never calls cancel_appointment
\* and leaves the appointments as they were.
UnresolvedNeverCancels ==
    (booking.ran /\ patient_ref = None /\ booking.lookup \in {"candidates", "not_found", "raise"}) =>
        /\ ~InCalls("cancel_appointment")
        /\ appointments = InitialAppointments

\* a cancel request with a name that several patients match: nothing cancelled
UnresolvedCancelWitness ==
    /\ booking.ran
    /\ patient_ref = None
    /\ booking.lookup = "candidates"
    /\ "cancel" \in TextWords(payload)
    /\ ~InCalls("cancel_appointment")
    /\ InCalls("lookup_patient_by_name")

\* the scheduling tools of the Concierge
SchedulingTools ==
    {"check_availability", "find_next_available", "book_appointment", "cancel_appointment",
     "reschedule_appointment", "get_patient_appointments"}

\* C25: a run in which the patient is not resolved calls no scheduling tool.
SchedulingOnlyWhenResolved ==
    (booking.ran /\ booking.ref = None) =>
        \A i \in 1..Len(booking.calls) : booking.calls[i] \notin SchedulingTools

\* "book an appointment" with neither a patient_ref nor a name: the
\* availability is looked up all the same
UnresolvedAvailabilityWitness ==
    /\ booking.ran
    /\ booking.ref = None
    /\ payload.patient_name = Absent
    /\ booking.calls = <<"find_next_available">>

\* what does hold: without a resolved patient the only scheduling call is
\* find_next_available, which reads and writes nothing of a patient
UnresolvedOnlyReadsAvailability ==
    (booking.ran /\ booking.ref = None) =>
        /\ \A i \in 1..Len(booking.calls) :
            booking.calls[i] \in {"lookup_patient_by_name", "find_next_available"}
        /\ appointments = InitialAppointments

-----------------------------------------------------------------------------
(* The audit log across the steps of an interaction                        *)

\* the rows a step added to audit_log
AddedEvents == SubSeq(audit_log', Len(audit_log) + 1, Len(audit_log'))

\* no step removes or changes a row of audit_log
AuditLogAppendOnly ==
    [][/\ Len(audit_log') >= Len(audit_log)
       /\ SubSeq(audit_log', 1, Len(audit_log)) = audit_log]_vars

\* a capability was invoked and returned its result to the graph
CapabilityReturned == pc \in AgentNames /\ pc' = "route"

\* C27: every capability invocation that returns, with a normal or with a
\* failure-flagged result, adds at least one audit event of that capability
\* before the Router decides again, and no step removes or changes an event.
AuditAtEachInvocation ==
    [][/\ Len(audit_log') >= Len(audit_log)
       /\ SubSeq(audit_log', 1, Len(audit_log)) = audit_log
       /\ CapabilityReturned =>
            \E i \in 1..Len(AddedEvents) : AddedEvents[i].actor_id = pc]_vars

\* what does hold: an invocation whose result is not failure-flagged adds an
\* event of its capability
AuditAtEachSuccess ==
    [][(CapabilityReturned /\ ~Get(agent_outputs', pc).error) =>
            \E i \in 1..Len(AddedEvents) : AddedEvents[i].actor_id = pc]_vars

\* the Concierge returned a failure-flagged result and the audit log has no
\* event of it
SilentFailureWitness ==
    /\ Has(agent_outputs, "concierge")
    /\ Get(agent_outputs, "concierge").error
    /\ pc = "route"
    /\ Len(agent_outputs) = 1
    /\ audit_log = <<>>

-----------------------------------------------------------------------------
(* Termination of run_interaction                                          *)

\* the graph engine runs a node whenever one is due
SpecFair == Init /\ [][Next]_vars /\ WF_vars(Next)

\* the interaction took the finalize transition and the graph ended
Terminated == completed /\ pc \in {"END", "returned"}

\* a capability invocation did not return: an exception left the agent's node
CapabilityDidNotReturn == pc = "fault" /\ fault \in AgentNames

\* C30: every interaction, whatever its trigger type and payload and whatever
\* the capabilities answer, eventually takes the finalize transition and
\* ends with completed = true, unless a capability invocation does not return.
EveryInteractionTerminates == <>(Terminated \/ CapabilityDidNotReturn)

\* a manual trigger naming the node "classify": the graph runs classify again
\* and again until the engine's recursion limit stops it, never finalized
ClassifyLoopWitness ==
    /\ trigger_type = "manual_trigger"
    /\ payload.agent = "classify"
    /\ pc = "fault"
    /\ fault = "recursion"
    /\ ~completed

\* what does hold: the run always comes to an end, finalized or not
EveryRunEnds == <>(pc \in {"returned", "fault"})

-----------------------------------------------------------------------------
(* Two run_interaction executions on one event loop                        *)
(* The state variables hold the interaction that is running; booking holds *)
(* the one that waits at an await, and which of the two is running. The    *)
(* appointments table and the audit log are the same for both.             *)

\* the OrchestratorState of a run and its place in the graph
Interaction(tt, p, ref, seed, outputs, agent, esc, reason, done, n, at, flt, ss, res, tr) ==
    [trigger_type |-> tt, payload |-> p, patient_ref |-> ref, intent |-> seed,
     agent_outputs |-> outputs, current_agent |-> agent, escalated |-> esc,
     escalation_reason |-> reason, completed |-> done, steps |-> n,
     pc |-> at, fault |-> flt, supersteps |-> ss, result |-> res, trace |-> tr]

\* initial_state of run_interaction for an event
InitialInteraction(tt, p, ref) ==
    Interaction(tt, p, ref, None, <<>>, None, FALSE, None, FALSE, 0,
                "classify", "none", 0, <<>>, <<>>)

\* the running interaction
Running ==
    Interaction(trigger_type, payload, patient_ref, intent, agent_outputs, current_agent,
                escalated, escalation_reason, completed, steps, pc, fault, supersteps,
                result, trace)

PairPayloads ==
    [intent : {Absent}, text : {[kind |-> "str", words |-> {"cancel"}]},
     job_type : {Absent}, agent : {Absent}, patient_name : {Absent}]

\* two inbound calls that ask to cancel
PairInit ==
    /\ trigger_type = "inbound_call"
    /\ payload \in PairPayloads
    /\ patient_ref = "p1"
    /\ intent = None
    /\ agent_outputs = <<>>
    /\ current_agent = None
    /\ escalated = FALSE
    /\ escalation_reason = None
    /\ completed = FALSE
    /\ steps = 0
    /\ pc = "classify"
    /\ fault = "none"
    /\ supersteps = 0
    /\ audit_log = <<>>
    /\ appointments = InitialAppointments
    /\ result = <<>>
    /\ trace = <<>>
    /\ \E p \in PairPayloads, ref \in PatientRefs :
        booking = [running |-> 1, waiting |-> InitialInteraction("inbound_call", p, ref)]

\* a run_interaction whose calls all use one agent_outputs dict
OutputsSharedByAll(own, current) == current

\* "agent_outputs": {} in initial_state: each call of run_interaction has a
\* dict of its own, so a resumed interaction finds the one it left
OutputsOnResume(own, current) == own

Ended(i) == i.pc \in {"returned", "fault"}

\* the event loop leaves the running interaction at the await of a capability
\* invocation, or when it has ended, and resumes the other one
Switch ==
    /\ pc \in AgentNames \/ Ended(Running)
    /\ ~Ended(booking.waiting)
    /\ booking' = [running |-> 3 - booking.running, waiting |-> Running]
    /\ trigger_type' = booking.waiting.trigger_type
    /\ payload' = booking.waiting.payload
    /\ patient_ref' = booking.waiting.patient_ref
    /\ intent' = booking.waiting.intent
    /\ agent_outputs' = OutputsOnResume(booking.waiting.agent_outputs, agent_outputs)
    /\ current_agent' = booking.waiting.current_agent
    /\ escalated' = booking.waiting.escalated
    /\ escalation_reason' = booking.waiting.escalation_reason
    /\ completed' = booking.waiting.completed
    /\ steps' = booking.waiting.steps
    /\ pc' = booking.waiting.pc
    /\ fault' = booking.waiting.fault
    /\ supersteps' = booking.waiting.supersteps
    /\ result' = booking.waiting.result
    /\ trace' = booking.waiting.trace
    /\ UNCHANGED <<audit_log, appointments>>

PairNext ==
    \/ Classify
    \/ Route
    \/ ConciergeNode
    \/ DiagnosticianNode
    \/ LiaisonNode
    \/ AuditorNode
    \/ FinalizeNode
    \/ ReturnResult
    \/ Switch

SpecPair == PairInit /\ [][PairNext]_vars

\* C26: when two interactions are interleaved at capability invocation
\* points, each step of one is a step it could take alone on the shared
\* tables and leaves the state of the other as it was, and an interaction
\* that is resumed finds its intent, agent_outputs, escalated,
\* escalation_reason, steps and completed as it left them.
InteractionsIsolated ==
    [][IF booking'.running # booking.running
       THEN /\ Running' = booking.waiting
            /\ booking'.waiting = Running
            /\ UNCHANGED <<audit_log, appointments>>
       ELSE /\ booking'.waiting = booking.waiting
            /\ Next \/ UNCHANGED vars]_vars

\* the second call has run to its end while the first waits at the
\* Diagnostician with the Concierge's result of its own
InterleavedWitness ==
    /\ booking.running = 2
    /\ pc = "returned"
    /\ completed
    /\ booking.waiting.pc = "diagnostician"
    /\ Has(booking.waiting.agent_outputs, "concierge")
    /\ agent_outputs # booking.waiting.agent_outputs
    /\ Len(agent_outputs) >= 2

-----------------------------------------------------------------------------
(* The capabilities one interaction runs                                   *)

\* the Diagnostician and the Auditor never both run
OneSpecialistOnly == ~({"diagnostician", "auditor"} \subseteq Ran)

\* at most three capabilities have run
ThreeCapabilitiesAtMost == Cardinality(Ran) <= 3 /\ Cardinality(Invocations) <= 3

\* C31: in every reachable state at most one of diagnostician and auditor is
\* a key of agent_outputs, at most three capabilities were invoked, and steps
\* is at most 4.
SpecialistsExclusive ==
    /\ OneSpecialistOnly
    /\ ThreeCapabilitiesAtMost
    /\ steps <= 4

\* steps is at most 4 in every interaction whose steps are classify once and
\* then capabilities
StepsAtMostFourUnlessReclassified ==
    Cardinality({i \in 1..Len(trace) : trace[i] = Node("classify")}) <= 1 => steps <= 4

\* a manual trigger naming "classify" has classified five times
ReclassifiedWitness ==
    /\ trigger_type = "manual_trigger"
    /\ payload.agent = "classify"
    /\ steps = 5
    /\ Ran = {}

\* Intake, the Diagnostician and the Liaison have run: three capabilities
ThreeCapabilitiesWitness ==
    /\ Ran = {"concierge", "diagnostician", "liaison"}
    /\ steps = 4
    /\ completed

\* the interaction has finalized after exactly these invocations and steps
FinalizedAfter(names, n) ==
    FinalizeRan => InvocationNames = names /\ steps = n /\ completed

\* C32: a scheduled_job interaction invokes the Liaison and nothing else and
\* then finalizes with steps = 2; a system_event interaction invokes no
\* capability and finalizes right after classification with steps = 1 and
\* intent "unknown".
JobsAndEventsRunShort ==
    /\ [](trigger_type = "scheduled_job" =>
            /\ InvocationNames \in {<<>>, <<"liaison">>}
            /\ FinalizedAfter(<<"liaison">>, 2))
    /\ [](trigger_type = "system_event" =>
            /\ InvocationNames = <<>>
            /\ (pc # "classify" => intent = "unknown")
            /\ FinalizedAfter(<<>>, 1))
    /\ (trigger_type \in {"scheduled_job", "system_event"}) ~> FinalizeRan

\* a scheduled job that has finalized after the Liaison
ScheduledJobWitness ==
    /\ trigger_type = "scheduled_job"
    /\ FinalizeRan
    /\ completed
    /\ steps = 2
    /\ Ran = {"liaison"}
    /\ trace = <<Node("classify"), Decision("liaison"), Node("liaison"),
                 Decision("finalize"), Node("finalize")>>

\* a system event that has finalized right after classification
SystemEventWitness ==
    /\ trigger_type = "system_event"
    /\ FinalizeRan
    /\ steps = 1
    /\ intent = "unknown"
    /\ Ran = {}

\* how many times the capability was invoked
TimesInvoked(name) == Cardinality({i \in Invocations : trace[i].name = name})

\* the capability the payload of the interaction names
NamedTarget == IF payload.agent = Absent THEN "concierge" ELSE payload.agent

ManualWithTarget(targets) == trigger_type = "manual_trigger" /\ NamedTarget \in targets

\* C33: in a manual_trigger interaction the capability payload.agent names
\* (Intake when the key is absent) is invoked exactly once; a target among
\* diagnostician, liaison and auditor is the only capability invoked and the
\* interaction then finalizes; Intake is invoked only when it is the target.
ManualRunsTarget ==
    /\ [](ManualWithTarget(AgentNames) => TimesInvoked(NamedTarget) <= 1)
    /\ [](ManualWithTarget({"diagnostician", "liaison", "auditor"}) =>
            /\ InvocationNames \in {<<>>, <<NamedTarget>>}
            /\ FinalizedAfter(<<NamedTarget>>, 2))
    /\ [](trigger_type = "manual_trigger" /\ TimesInvoked("concierge") > 0 =>
            NamedTarget = "concierge")
    /\ ManualWithTarget(AgentNames) ~> (TimesInvoked(NamedTarget) = 1)
    /\ ManualWithTarget({"diagnostician", "liaison", "auditor"}) ~> FinalizeRan

\* a manual trigger for the Auditor: the Auditor alone has run, then finalize
ManualAuditorWitness ==
    /\ trigger_type = "manual_trigger"
    /\ payload.agent = "auditor"
    /\ trace = <<Node("classify"), Decision("auditor"), Node("auditor"),
                 Decision("finalize"), Node("finalize")>>
    /\ steps = 2
    /\ completed

\* a manual trigger without payload.agent: Intake has run
ManualDefaultWitness ==
    /\ trigger_type = "manual_trigger"
    /\ payload.agent = Absent
    /\ TimesInvoked("concierge") = 1
    /\ FinalizeRan

\* the orders in which a live interaction may have invoked capabilities so far
LiveOrders ==
    {<<>>, <<"concierge">>,
     <<"concierge", "diagnostician">>, <<"concierge", "auditor">>,
     <<"concierge", "diagnostician", "liaison">>, <<"concierge", "auditor", "liaison">>}

LiveEscalatedWitness ==
    /\ trigger_type = "inbound_call"
    /\ escalated
    /\ InvocationNames = <<"concierge">>
    /\ completed

-----------------------------------------------------------------------------
(* The calendar under calls made one after the other                       *)

\* no two appointments of a workspace that are not cancelled overlap
ConflictFree(appts) ==
    \A i, j \in 1..Len(appts) :
        (i # j /\ appts[i].status # "cancelled" /\ appts[j].status # "cancelled")
            => ~Overlap(appts[i], appts[j])

\* the row lies within business hours on a business day
InBusinessHours(row) ==
    /\ row.date \in {"mon", "tue", "wed", "thu", "fri"}
    /\ row.start_time >= 8 * 60
    /\ row.end_time <= 17 * 60
    /\ row.start_time < row.end_time

\* the rows the step created or moved
CreatedOrMoved ==
    {i \in 1..Len(appointments') :
        \/ i > Len(appointments)
        \/ appointments'[i].date # appointments[i].date
        \/ appointments'[i].start_time # appointments[i].start_time
        \/ appointments'[i].end_time # appointments[i].end_time}

\* C35: calls of book, cancel and reschedule made one at a time on a
\* conflict-free table leave it conflict-free, and every appointment they
\* create or move lies within business hours on a business day.
SequentialCallsKeepCalendar ==
    [][ConflictFree(appointments) =>
            /\ ConflictFree(appointments')
            /\ \A i \in CreatedOrMoved : InBusinessHours(appointments'[i])]_vars

\* after two calls a cleaning of 08:00 ends where the exam of 09:00 starts,
\* and a third appointment of the workspace is scheduled
FullMorningWitness ==
    /\ booking.calls = 2
    /\ \E i, j, k \in 1..Len(appointments) :
        /\ appointments[i].workspace_id = workspace_id
        /\ appointments[i].appointment_type = "cleaning"
        /\ appointments[i].start_time = 480
        /\ appointments[i].status = "scheduled"
        /\ appointments[j].start_time = 540
        /\ appointments[j].status = "scheduled"
        /\ appointments[j].workspace_id = workspace_id
        /\ k \notin {i, j}
        /\ appointments[k].workspace_id = workspace_id
        /\ appointments[k].status = "scheduled"

\* the call that just returned was a cancel_appointment that succeeded
CancelSucceeded ==
    /\ booking'.calls # booking.calls
    /\ booking'.req.op = "cancel"
    /\ booking'.outcome.status = "success"

\* no other appointment of the workspace that is not cancelled overlaps row i
NothingElseOverlaps(appts, i) ==
    \A j \in 1..Len(appts) :
        (j # i /\ appts[j].status # "cancelled") => ~Overlap(appts[i], appts[j])

\* C36: after cancel_appointment succeeded the appointment is cancelled and
\* counts as busy no more: if no other appointment overlaps it,
\* check_availability lists its start for its duration again and a
\* book_appointment for its date, time and type succeeds.
CancelFreesSlot ==
    [][CancelSucceeded =>
        LET i == booking'.outcome.appointment_id
            row == appointments'[i]
            again == Request("book", row.date, FormatTime(row.start_time),
                             row.appointment_type, None, 0, 0)
        IN  /\ row.status = "cancelled"
            /\ i \notin AppointmentsForDate(appointments', workspace_id, row.date)
            /\ NothingElseOverlaps(appointments', i) =>
                /\ IsAvailable(check_availability(appointments', workspace_id, row.date,
                                                  row.duration_minutes),
                               FormatTime(row.start_time))
                /\ BookCall(appointments', audit_log', workspace_id, again, TRUE).outcome.status
                    = "success"]_vars

\* the exam of Monday 09:00 was cancelled and the check that followed lists
\* 09:00 for 30 minutes
FreedSlotWitness ==
    /\ booking.calls = 2
    /\ booking.req.op = "check"
    /\ booking.req.date = "mon"
    /\ booking.req.duration = 30
    /\ Len(appointments) >= 2
    /\ appointments[2] = [ExamRow EXCEPT !.status = "cancelled"]
    /\ IsAvailable(booking.outcome.slots, FormatTime(540))

\* the call that just returned reported a cancellation of row i
ReportsCancellation(i) ==
    /\ booking'.calls # booking.calls
    /\ booking'.req.op = "cancel"
    /\ booking'.outcome.status = "success"
    /\ booking'.outcome.appointment_id = i

\* C37: an appointment that is cancelled stays cancelled whatever calls of
\* book, cancel and reschedule follow, and a cancel of it reports no new
\* cancellation.
CancellationFinal ==
    [][\A i \in 1..Len(appointments) :
        appointments[i].status = "cancelled" =>
            /\ appointments'[i].status = "cancelled"
            /\ ~ReportsCancellation(i)
            /\ (booking'.req.op = "cancel" /\ booking'.req.appt_id = i) =>
                    audit_log' = audit_log]_vars

\* what does hold: book_appointment and cancel_appointment never set a
\* cancelled appointment back to scheduled
OnlyRescheduleRevives ==
    [][\A i \in 1..Len(appointments) :
        (appointments[i].status = "cancelled" /\ booking'.req.op # "reschedule") =>
            appointments'[i].status = "cancelled"]_vars

\* the cancelled cleaning was moved to Monday 08:00 and is scheduled again
RevivedWitness ==
    /\ booking.req.op = "reschedule"
    /\ booking.req.appt_id = 3
    /\ booking.outcome.status = "success"
    /\ Len(appointments) = 3
    /\ appointments[3].status = "scheduled"
    /\ appointments[3].start_time = 480

\* the cancelled cleaning was cancelled once more, with success
CancelledTwiceWitness ==
    /\ booking.calls = 1
    /\ booking.req.op = "cancel"
    /\ booking.req.appt_id = 3
    /\ booking.outcome.status = "success"
    /\ Len(audit_log) = 1

RescheduleReturned ==
    /\ booking'.calls # booking.calls
    /\ booking'.req.op = "reschedule"

\* C38, first part: when reschedule_appointment returns success=false the
\* appointments (start, end, status) are as before and no audit event is
\* written.
FailedRescheduleChangesNothing ==
    [][(RescheduleReturned /\ booking'.outcome.status = "failure") =>
            /\ appointments' = appointments
            /\ audit_log' = audit_log]_vars

\* the interval [start, start + duration) of row i moved to new_start meets
\* no other non-cancelled appointment of the workspace on that date
OverlapsOnlyItself(appts, i, date, new_start) ==
    LET moved == [appts[i] EXCEPT !.date = date, !.start_time = new_start,
                                  !.end_time = new_start + appts[i].duration_minutes]
    IN  \A j \in 1..Len(appts) :
            (j # i /\ appts[j].status # "cancelled"
                   /\ appts[j].workspace_id = appts[i].workspace_id) =>
                ~Overlap(moved, appts[j])

\* the request names a scheduled appointment of the workspace and a start on
\* the grid of a business day at which the moved appointment ends by closing
\* time and overlaps nothing but its own current interval
MovableRequest ==
    LET r == booking'.req
        i == r.appt_id
        start == MinuteOf(r.time)
    IN  /\ i \in 1..Len(appointments)
        /\ appointments[i].workspace_id = workspace_id
        /\ appointments[i].status = "scheduled"
        /\ r.date \in BusinessDays
        /\ start # ValueError
        /\ start >= BusinessStartHour * 60
        /\ (start - BusinessStartHour * 60) % SlotMinutes = 0
        /\ start + appointments[i].duration_minutes <= BusinessEndHour * 60
        /\ start # appointments[i].start_time
        /\ OverlapsOnlyItself(appointments, i, r.date, start)

\* C38: a failed reschedule changes nothing, and an appointment can be moved
\* to a new start whose interval overlaps only its own current interval.
RescheduleFailsCleanlyAndMovesOverSelf ==
    [][RescheduleReturned =>
            /\ booking'.outcome.status = "failure" =>
                    (appointments' = appointments /\ audit_log' = audit_log)
            /\ MovableRequest => booking'.outcome.status # "failure"]_vars

\* what does hold: a reschedule to a start whose interval meets no
\* non-cancelled appointment of the workspace, its own included, does not fail
MovesToFreeInterval ==
    [][(RescheduleReturned /\ MovableRequest
            /\ LET row == appointments[booking'.req.appt_id]
                   start == MinuteOf(booking'.req.time)
               IN  ~Overlap([row EXCEPT !.date = booking'.req.date,
                                        !.start_time = start,
                                        !.end_time = start + row.duration_minutes],
                            row))
        => booking'.outcome.status # "failure"]_vars

\* a reschedule of an appointment that is not of the workspace failed and
\* left the table and the audit log as they were
FailedRescheduleWitness ==
    /\ booking.calls = 2
    /\ booking.req.op = "reschedule"
    /\ booking.req.appt_id = 1
    /\ booking.outcome.status = "failure"
    /\ booking.outcome.error = "Appointment not found"
    /\ Len(appointments) = 3
    /\ Len(audit_log) = 1

\* the 60-minute cleaning booked for Monday 08:00 was refused a move to 08:30,
\* where it overlaps nothing but itself
SelfOverlapRefusedWitness ==
    /\ booking.calls = 2
    /\ booking.req.op = "reschedule"
    /\ booking.req.appt_id = 2
    /\ booking.req.time = FormatTime(510)
    /\ booking.outcome.status = "failure"
    /\ booking.outcome.error = "The requested time is not available"
    /\ Len(appointments) = 2
    /\ appointments[2].appointment_type = "cleaning"
    /\ appointments[2].start_time = 480
    /\ appointments[2].status = "scheduled"

\* the ids of the records the list_patients RPC returned for the workspace
ListedIds(patients) == {patients[i].id : i \in 1..Len(patients)}

FoundShape(res) == res.found /\ res.patient # None /\ res.candidates = <<>>

AmbiguousShape(res) ==
    ~res.found /\ res.patient = None /\ Len(res.candidates) >= 2 /\ Len(res.candidates) <= 5

NotFoundShape(res) == ~res.found /\ res.patient = None /\ res.candidates = <<>>

\* lookup_patient_by_name was called and returned a result
LookupReturned(call) ==
    call.calls > 0 /\ call.patient_name # <<>> /\ call.lookup.kind # "raise"

\* C39: every result of lookup_patient_by_name is found (found=true, a
\* patient, no candidates), ambiguous (found=false, no patient, two to five
\* candidates) or not-found (found=false, no patient, no candidates), exactly
\* one of the three; found=true never comes with candidates, and the patient
\* and the candidates are records of the workspace queried.
LookupTriState ==
    LookupReturned(booking) =>
        LET res == booking.lookup IN
            /\ Cardinality({shape \in {"found", "ambiguous", "not_found"} :
                    \/ shape = "found" /\ FoundShape(res)
                    \/ shape = "ambiguous" /\ AmbiguousShape(res)
                    \/ shape = "not_found" /\ NotFoundShape(res)}) = 1
            /\ ~(res.found /\ res.candidates # <<>>)
            /\ res.patient # None => res.patient \in ListedIds(booking.patients)
            /\ \A k \in 1..Len(res.candidates) : res.candidates[k] \in ListedIds(booking.patients)

\* "li" with six patients named Li on file: five candidates, no patient
FiveCandidatesWitness ==
    /\ booking.calls > 0
    /\ booking.patient_name = <<"l", "i">>
    /\ Len(booking.patients) = 6
    /\ ~booking.lookup.found
    /\ booking.lookup.patient = None
    /\ Len(booking.lookup.candidates) = 5

\* each of the three shapes is returned
FoundShapeWitness == LookupReturned(booking) /\ FoundShape(booking.lookup)

NotFoundShapeWitness ==
    LookupReturned(booking) /\ ~booking.rpc_fails /\ booking.patients # <<>>
        /\ NotFoundShape(booking.lookup)

====
